---- MODULE Spec2Model ----
(***************************************************************************)
(* Model of wireDI: the static DI validator of the language-service plugin *)
(* (token normalizer, configuration analyzer, dependency analyzer, the     *)
(* getSemanticDiagnostics proxy) and the runtime builder (useBuilder,      *)
(* registerConfig, registerEvent) on an InversifyProvider container.       *)
(*                                                                         *)
(* Each part of the program has its own specification over the shared      *)
(* variables; the variables of the other parts stay at their idle value.   *)
(***************************************************************************)
EXTENDS Integers, Sequences, FiniteSets, TLC

VARIABLES
    configs,         \* ConfigurationAnalyzer: the AnalyzedConfig of every declaration
    visitedConfigs,  \* ValidatorState.visitedConfigs: the visited set of the pass
    resolved,        \* the last resolveAllProvidedTokens call and what it returned
    symtab,          \* the type checker's symbols: alias targets and declarations
    normalized,      \* TokenNormalizer: the last normalize calls, newest last
    extracted,       \* the last analyzeParameter / parseInjectionEntry call and its result
    program,         \* language service: is there a program, and its source files
    engine,          \* what validate yields on the current program
    diagnostics,     \* the last getSemanticDiagnostics call and its result
    bindings,        \* container provider: the binding of every token
    dispatcher,      \* event dispatcher provider: configured, and its listeners
    used,            \* the last useBuilder call and the calls it made
    registrations,   \* per builderId: register calls made for its tokens and listeners
    currentProvider, \* Provider manager: the global container provider, or none
    globalEventDispatcherProvider,  \* EventDispatcher manager: the global provider, or none
    listening,       \* per event dispatcher provider: does it hold listeners
    managed,         \* the last call on one of the two managers and its outcome
    defined,         \* the last defineBuilderConfig call: its argument and its result
    subject,         \* the config a program passes to useBuilder
    eventListeners,  \* MutableEventDispatcherProvider.listeners: event name -> listener tokens
    registeredFor,   \* per event class, the listeners registered for it and not cleared since
    observed,        \* the last call on the MutableEventDispatcherProvider and what it did
    typed,           \* the last defineBuilderConfig call as the type checker sees it
    adapter,         \* an InversifyProvider or AwilixProvider object
    adapted,         \* the last call on the adapter and what it did
    awilix,          \* an AwilixProvider and the scope created from it: names and registrations
    following,       \* a running alias loop: whose it is, its current symbol, its position
    builders,        \* the builder config a program declares for each builderId
    firstUse         \* per builderId, how its first useBuilder call went

cfgVars == <<configs, visitedConfigs, resolved>>
tokVars == <<symtab, normalized>>
extVars == <<extracted>>
diagVars == <<program, engine, diagnostics>>
runVars == <<bindings, dispatcher, used, registrations>>
mgrVars == <<currentProvider, globalEventDispatcherProvider, listening, managed>>
defVars == <<defined>>
useVars == <<subject>>
evtVars == <<eventListeners, registeredFor, observed>>
typeVars == <<typed>>
adpVars == <<adapter, adapted>>
awxVars == <<awilix>>
aliasVars == <<following>>
shareVars == <<builders, firstUse>>

vars == <<configs, visitedConfigs, resolved, symtab, normalized, extracted,
          program, engine, diagnostics, bindings, dispatcher, used, registrations,
          currentProvider, globalEventDispatcherProvider, listening, managed,
          defined, subject, eventListeners, registeredFor, observed, typed,
          adapter, adapted, awilix, following, builders, firstUse>>

(***************************************************************************)
(* Bounds                                                                  *)
(***************************************************************************)
\* longest extends list of a configuration declaration
MaxExtends == 2
\* extends entries of all the configuration declarations together
MaxEdges == 3
\* depth of nested resolveAllProvidedTokens calls the call stack holds
MaxDepth == 6
\* import aliases (import / re-export bindings) in the analysed sources
MaxAliases == 2
\* decorators on one constructor parameter
MaxDecorators == 1
\* violations one validation pass reports
MaxErrors == 2
\* diagnostics of the host for one file
MaxHostDiagnostics == 2
\* entries of a config's merged injections list
MaxInjections == 2
\* entries of a config's merged listeners list
MaxListeners == 1
\* register calls counted per builderId and token or listener
MaxRegistrations == 2
\* entries of the listeners list of the config passed to useBuilder
MaxSubjectListeners == 2
\* listener tokens a MutableEventDispatcherProvider holds for one event name
MaxHeld == 2
\* init() calls of one adapter that wait for the dynamic import at once
MaxOverlap == 2
MaxShared == 1

\* the configuration declarations of the analysed sources, by the symbol an
\* extends entry that refers to them resolves to
ConfigSymbols == {"A", "B", "C"}
\* normalized token ids
TokenIds == {"T", "U"}

NoSymbol == "undefined"
NoResult == [called |-> FALSE]

SeqsUpTo(S, n) == UNION {[1..k -> S] : k \in 0..n}

(***************************************************************************)
(* ConfigurationAnalyzer                                                   *)
(***************************************************************************)
\* A configuration declaration of the sources: how it is declared (a variable
\* statement or an export assignment), the tokens of its injections array and
\* the identifiers of its extends array (by the symbol they resolve to).
ExtendsGraphs ==
    {g \in [ConfigSymbols -> SeqsUpTo(ConfigSymbols, MaxExtends)] :
        Cardinality({e \in ConfigSymbols \X (1..MaxExtends) :
                        e[2] <= Len(g[e[1]])}) <= MaxEdges}

DeclarationSets(tokens, forms) ==
    {[s \in ConfigSymbols |->
         [form |-> f[s], injections |-> inj[s], extends |-> g[s]]] :
        f \in [ConfigSymbols -> forms],
        inj \in [ConfigSymbols -> SUBSET tokens],
        g \in ExtendsGraphs}

\* parseInjections: providedTokens maps each token id to the entry that
\* provides it; an entry is identified by the declaration and its token.
parseInjections(sym, injections) ==
    [t \in injections |-> <<sym, t>>]

\* parseExtends: every identifier that has a symbol is resolved and pushed.
parseExtends(extends) == extends

\* analyzeCallExpression: config.symbol is the symbol of the variable
\* declaration; a call that is not the initializer of a variable declaration
\* (export default defineBuilderConfig(...)) is analysed without declaration.
analyzeCallExpression(sym, decl) ==
    [symbol |-> IF decl.form = "variable" THEN sym ELSE NoSymbol,
     variableName |-> IF decl.form = "variable" THEN sym ELSE NoSymbol,
     node |-> sym,
     providedTokens |-> parseInjections(sym, decl.injections),
     parentConfigs |-> parseExtends(decl.extends)]

\* The map of all configurations handed to resolveAllProvidedTokens:
\* Map<ts.Symbol, AnalyzedConfig>, keyed by the symbol of each configuration.
BuildConfigMap(cfgs) ==
    LET keyed == {s \in DOMAIN cfgs : cfgs[s].symbol # NoSymbol}
    IN [k \in {cfgs[s].symbol : s \in keyed} |->
            cfgs[CHOOSE s \in keyed : cfgs[s].symbol = k]]

\* for (const [tokenId, provider] of parentTokens)
\*     if (!allTokens.has(tokenId)) allTokens.set(tokenId, provider)
MergeWrong(allTokens, parentTokens) ==
    [t \in DOMAIN allTokens \cup DOMAIN parentTokens |->
        IF t \in DOMAIN parentTokens THEN parentTokens[t] ELSE allTokens[t]]

MergeParentTokens(allTokens, parentTokens) ==
    [t \in DOMAIN allTokens \cup DOMAIN parentTokens |->
        IF t \in DOMAIN allTokens THEN allTokens[t] ELSE parentTokens[t]]

\* if (config.symbol && visitedSet.has(config.symbol)) return config.providedTokens
CycleDetectedNever(config, visitedSet) == FALSE

CycleDetected(config, visitedSet) ==
    config.symbol # NoSymbol /\ config.symbol \in visitedSet

RECURSIVE resolveAllProvidedTokens(_, _, _, _)
RECURSIVE MergeParents(_, _, _, _, _, _)

\* resolveAllProvidedTokens(config, allConfigs, visitedSet): the map it
\* returns, the visited set as it leaves it, and whether the nesting went past
\* the call stack (a RangeError).
resolveAllProvidedTokens(config, allConfigs, visitedSet, depth) ==
    IF depth > MaxDepth
    THEN [tokens |-> config.providedTokens, visited |-> visitedSet, overflow |-> TRUE]
    ELSE IF CycleDetected(config, visitedSet)
    THEN [tokens |-> config.providedTokens, visited |-> visitedSet, overflow |-> FALSE]
    ELSE MergeParents(config.parentConfigs, 1, allConfigs, config.providedTokens,
                      IF config.symbol # NoSymbol
                      THEN visitedSet \cup {config.symbol} ELSE visitedSet,
                      depth)

\* the loop over config.parentConfigs, from its i-th entry on
MergeParents(parents, i, allConfigs, allTokens, visitedSet, depth) ==
    IF i > Len(parents)
    THEN [tokens |-> allTokens, visited |-> visitedSet, overflow |-> FALSE]
    ELSE IF parents[i] \notin DOMAIN allConfigs
    THEN MergeParents(parents, i + 1, allConfigs, allTokens, visitedSet, depth)
    ELSE LET r == resolveAllProvidedTokens(allConfigs[parents[i]], allConfigs,
                                           visitedSet, depth + 1)
         IN IF r.overflow
            THEN r
            ELSE MergeParents(parents, i + 1, allConfigs,
                              MergeParentTokens(allTokens, r.tokens), r.visited, depth)

(***************************************************************************)
(* TokenNormalizer                                                         *)
(***************************************************************************)
Alias(i) == [kind |-> "alias", n |-> i]
Decl(i) == [kind |-> "declared", n |-> i]
\* getSymbolAtLocation found no symbol
NoSym == [kind |-> "none", n |-> 0]
\* checker.getAliasedSymbol throws
Throws == [kind |-> "throws", n |-> 0]
\* the checker's unknownSymbol: a symbol without declarations
UnknownSymbol == [kind |-> "unknown", n |-> 0]

\* a class whose name is one of the built-in type names
BuiltinClass == [kind |-> "builtin", n |-> 0]

AliasSymbols == {Alias(i) : i \in 1..MaxAliases}
DeclSymbols == {Decl(1), Decl(2)}

\* the declaration node of a declared symbol: its syntax kind, whether its
\* initializer is a call of Symbol, and the checker's type string
DeclShapes ==
    {[node |-> "ClassDeclaration", symbolCall |-> FALSE, typeString |-> "typeof DB"],
     [node |-> "VariableDeclaration", symbolCall |-> TRUE, typeString |-> "unique symbol"],
     [node |-> "PropertyAssignment", symbolCall |-> TRUE, typeString |-> "symbol"],
     [node |-> "VariableDeclaration", symbolCall |-> FALSE, typeString |-> "symbol"],
     [node |-> "VariableDeclaration", symbolCall |-> FALSE, typeString |-> "string"]}

\* symbol.valueDeclaration || symbol.declarations?.[0]: the declaration with
\* its source file and start offset. An alias symbol is declared by its import
\* specifier; unknownSymbol has no declaration.
NoDeclaration == [file |-> "", start |-> 0, name |-> "",
                  shape |-> [node |-> "none", symbolCall |-> FALSE, typeString |-> ""]]

DeclarationOf(symbol) ==
    IF symbol \in DeclSymbols
    THEN [file |-> symtab.site[symbol][1], start |-> symtab.site[symbol][2],
          name |-> "DB", shape |-> symtab.shape[symbol]]
    ELSE IF symbol \in AliasSymbols
    THEN [file |-> "consumer.ts", start |-> 40 + symbol.n, name |-> "DB",
          shape |-> [node |-> "ImportSpecifier", symbolCall |-> FALSE,
                     typeString |-> "any"]]
    ELSE IF symbol = BuiltinClass
    THEN [file |-> "builtins.ts", start |-> 5, name |-> "Date",
          shape |-> [node |-> "ClassDeclaration", symbolCall |-> FALSE,
                     typeString |-> "typeof Date"]]
    ELSE NoDeclaration

NullToken == [id |-> <<>>, type |-> "null", displayName |-> ""]

\* type.toUpperCase()
ToUpperCase(type) ==
    CASE type = "class" -> "CLASS"
      [] type = "symbol" -> "SYMBOL"
      [] type = "string" -> "STRING"
      [] OTHER -> "UNKNOWN"

\* determineTokenType
determineTokenType(declaration) ==
    IF declaration.shape.node = "ClassDeclaration" THEN "class"
    ELSE IF declaration.shape.node = "VariableDeclaration" /\ declaration.shape.symbolCall
    THEN "symbol"
    ELSE IF declaration.shape.node = "PropertyAssignment" /\ declaration.shape.symbolCall
    THEN "symbol"
    ELSE IF declaration.shape.typeString \in {"symbol", "unique symbol"}
    THEN "symbol"
    ELSE "unknown"

\* resolveAlias: follows the alias chain; null on a cycle, the current alias
\* when getAliasedSymbol throws
RECURSIVE resolveAliasFrom(_, _)
resolveAliasFrom(current, visited) ==
    IF current \notin AliasSymbols THEN current
    ELSE IF current \in visited THEN NoSym
    ELSE IF symtab.target[current] = Throws THEN current
    ELSE resolveAliasFrom(symtab.target[current], visited \cup {current})

resolveAlias(symbol) == resolveAliasFrom(symbol, {})

\* createTokenFromSymbol: the id is built from the type, the declaration's
\* file name and the declaration's start offset
createTokenByText(symbol, displayNameOverride) ==
    LET declaration == DeclarationOf(symbol)
        type == determineTokenType(declaration)
    IN IF declaration = NoDeclaration THEN NullToken
       ELSE [id |-> <<ToUpperCase(type), declaration.name>>,
             type |-> type,
             displayName |-> IF displayNameOverride # "" THEN displayNameOverride
                             ELSE declaration.name]

createTokenFromSymbol(symbol, displayNameOverride) ==
    LET declaration == DeclarationOf(symbol)
        type == determineTokenType(declaration)
    IN IF declaration = NoDeclaration THEN NullToken
       ELSE [id |-> <<ToUpperCase(type), declaration.file, declaration.start>>,
             type |-> type,
             displayName |-> IF displayNameOverride # "" THEN displayNameOverride
                             ELSE declaration.name]

\* normalizeIdentifier / normalizeMemberExpression
normalizeIdentifier(symbol) ==
    IF symbol = NoSym THEN NullToken
    ELSE IF resolveAlias(symbol) = NoSym THEN NullToken
    ELSE createTokenFromSymbol(resolveAlias(symbol), "")

normalizeMemberExpression(symbol, text) ==
    IF symbol = NoSym THEN NullToken
    ELSE IF resolveAlias(symbol) = NoSym THEN NullToken
    ELSE createTokenFromSymbol(resolveAlias(symbol), text)

\* normalizeCallExpression: Symbol('name') written inline
normalizeCallExpression(node) ==
    IF node.callee = "Symbol" /\ node.stringArg
    THEN [id |-> <<"INLINE_SYMBOL", node.file, node.start>>, type |-> "symbol",
          displayName |-> "Symbol('DB')"]
    ELSE NullToken

\* the token reference nodes handed to normalize
StringLiteral(text) == [syntax |-> "StringLiteral", text |-> text]
Identifier(symbol) == [syntax |-> "Identifier", symbol |-> symbol]
PropertyAccess(symbol) ==
    [syntax |-> "PropertyAccessExpression", symbol |-> symbol, text |-> "TOKENS.DB"]
CallExpression(callee, stringArg) ==
    [syntax |-> "CallExpression", callee |-> callee, stringArg |-> stringArg,
     file |-> "consumer.ts", start |-> 30]

TokenNodes ==
    {StringLiteral("DB")}
    \cup {Identifier(sy) : sy \in DeclSymbols \cup AliasSymbols \cup {NoSym}}
    \cup {PropertyAccess(sy) : sy \in DeclSymbols}
    \cup {CallExpression("Symbol", TRUE), CallExpression("getToken", FALSE)}

\* normalize
normalize(node) ==
    CASE node.syntax = "StringLiteral" ->
            [id |-> <<"STRING", node.text>>, type |-> "string", displayName |-> node.text]
      [] node.syntax = "Identifier" -> normalizeIdentifier(node.symbol)
      [] node.syntax = "PropertyAccessExpression" ->
            normalizeMemberExpression(node.symbol, node.text)
      [] node.syntax = "CallExpression" -> normalizeCallExpression(node)
      [] OTHER -> NullToken

\* the symbol tables of the analysed sources: two declarations at different
\* sites (same file or same offset in another file) and the import aliases
SymbolTables ==
    [target : [AliasSymbols ->
                  DeclSymbols \cup AliasSymbols \cup {Throws, UnknownSymbol}],
     shape : [DeclSymbols -> DeclShapes],
     site : {[sy \in DeclSymbols |->
                 IF sy = Decl(1) THEN <<"tokens.ts", 10>> ELSE other] :
                other \in {<<"tokens.ts", 20>>, <<"other.ts", 10>>}}]

\* normalizeFromType: only a type reference names a token
normalizeFromType(typeNode) ==
    IF typeNode.syntax # "TypeReference" THEN NullToken
    ELSE IF typeNode.typeName = "Identifier" THEN normalizeIdentifier(typeNode.symbol)
    ELSE IF typeNode.typeName = "QualifiedName"
            /\ typeNode.symbol # NoSym /\ resolveAlias(typeNode.symbol) # NoSym
    THEN createTokenFromSymbol(resolveAlias(typeNode.symbol), "")
    ELSE NullToken

(***************************************************************************)
(* DependencyAnalyzer                                                      *)
(***************************************************************************)
NoNode == [syntax |-> "none"]
NullDependency == [token |-> NullToken, injectionMethod |-> "none"]

\* where the identifier of a decorator is declared: no symbol at all, or the
\* file of its declaration (does its name include 'tsyringe', 'node_modules')
InjectOrigins ==
    {[symbol |-> FALSE, tsyringe |-> FALSE, nodeModules |-> FALSE],
     [symbol |-> TRUE, tsyringe |-> TRUE, nodeModules |-> TRUE],
     [symbol |-> TRUE, tsyringe |-> FALSE, nodeModules |-> FALSE],
     [symbol |-> TRUE, tsyringe |-> FALSE, nodeModules |-> TRUE]}

\* the argument nodes written in @inject(...)
InjectArguments ==
    {NoNode, StringLiteral("DB"), Identifier(Decl(1)), Identifier(Alias(1)),
     CallExpression("getToken", FALSE)}

\* a decorator: @callee(argument), or @callee without a call
Decorators ==
    [call : {TRUE}, callee : {"inject"}, origin : InjectOrigins, argument : InjectArguments]
    \cup {[call |-> FALSE, callee |-> "inject",
           origin |-> [symbol |-> FALSE, tsyringe |-> FALSE, nodeModules |-> FALSE],
           argument |-> NoNode],
          [call |-> TRUE, callee |-> "other",
           origin |-> [symbol |-> FALSE, tsyringe |-> FALSE, nodeModules |-> FALSE],
           argument |-> NoNode]}

\* the declared type of a parameter
TypeNodes ==
    {NoNode, [syntax |-> "KeywordType"]}
    \cup {[syntax |-> "TypeReference", typeName |-> "Identifier", symbol |-> sy] :
             sy \in {Decl(1), Decl(2), Alias(1), BuiltinClass}}
    \cup {[syntax |-> "TypeReference", typeName |-> "QualifiedName", symbol |-> Decl(2)]}

Parameters == [decorators : SeqsUpTo(Decorators, MaxDecorators), type : TypeNodes]

\* isInjectFromTsyringe
isInjectFromTsyringe(origin) ==
    IF ~origin.symbol THEN TRUE
    ELSE origin.tsyringe \/ ~origin.nodeModules

\* findInjectDecorator: the index of the first decorator that is a call of an
\* identifier named inject from tsyringe; 0 when there is none
RECURSIVE findInjectDecoratorFrom(_, _)
findInjectDecoratorFrom(decorators, i) ==
    IF i > Len(decorators) THEN 0
    ELSE IF /\ decorators[i].call
            /\ decorators[i].callee = "inject"
            /\ isInjectFromTsyringe(decorators[i].origin)
    THEN i
    ELSE findInjectDecoratorFrom(decorators, i + 1)

findInjectDecorator(param) == findInjectDecoratorFrom(param.decorators, 1)

\* extractTokenFromDecorator
extractTokenFromDecorator(decorator) ==
    IF ~decorator.call THEN NullToken
    ELSE IF decorator.argument = NoNode THEN NullToken
    ELSE normalize(decorator.argument)

\* the built-in type names isInjectableType excludes
NonInjectableTypes ==
    {"string", "number", "boolean", "object", "any", "unknown", "never", "void",
     "null", "undefined", "symbol", "bigint", "String", "Number", "Boolean",
     "Object", "Function", "Array", "Map", "Set", "Promise", "Date", "RegExp", "Error"}

isInjectableType(token) ==
    IF token = NullToken THEN FALSE
    ELSE IF token.displayName \in NonInjectableTypes THEN FALSE
    ELSE token.type = "class"

\* analyzeParameter: what follows once the @inject decorator gave no token
TypeDependency(param) ==
    IF param.type # NoNode /\ isInjectableType(normalizeFromType(param.type))
    THEN [token |-> normalizeFromType(param.type), injectionMethod |-> "type"]
    ELSE NullDependency

analyzeParameter(param) ==
    LET d == findInjectDecorator(param)
    IN IF d # 0 /\ extractTokenFromDecorator(param.decorators[d]) # NullToken
       THEN [token |-> extractTokenFromDecorator(param.decorators[d]),
             injectionMethod |-> "decorator"]
       ELSE TypeDependency(param)

(***************************************************************************)
(* ConfigurationAnalyzer.parseInjectionEntry                               *)
(***************************************************************************)
NullProvider == [token |-> NullToken, registrationType |-> "none"]

\* the token nodes written in an injections entry
EntryTokens ==
    {NoNode, StringLiteral("DB"), Identifier(Decl(1)), Identifier(Decl(2)),
     Identifier(Alias(1)), CallExpression("Symbol", TRUE)}

\* an object literal of an injections array: its token node and which of the
\* properties provider, value, factory it has
InjectionEntries ==
    [token : EntryTokens, provider : BOOLEAN, value : BOOLEAN, factory : BOOLEAN]

parseInjectionEntry(element) ==
    IF element.token = NoNode THEN NullProvider
    ELSE IF normalize(element.token) = NullToken THEN NullProvider
    ELSE [token |-> normalize(element.token),
          registrationType |->
              IF element.factory THEN "factory"
              ELSE IF element.value THEN "value"
              ELSE IF element.provider THEN "symbol-provider"
              ELSE "class"]

\* the arrays of injections checked entry against entry: object literals
\* whose token is an identifier and that have at most one of provider, value
\* and factory
ListedEntries ==
    {element \in InjectionEntries :
        /\ element.token \in {Identifier(Decl(1)), Identifier(Decl(2)),
                              Identifier(Alias(1))}
        /\ Cardinality({f \in {"provider", "value", "factory"} :
                           element[f]}) <= 1}

InjectionArrays == SeqsUpTo(ListedEntries, MaxInjections)

\* new Map() and []: the providedTokens and localProviders of a new AnalyzedConfig
NoProviders == [localProviders |-> <<>>, providedTokens |-> <<>>]

\* config.providedTokens.set(provider.token.id, provider)
MapSet(map, key, value) ==
    [k \in DOMAIN map \cup {key} |-> IF k = key THEN value ELSE map[k]]

\* parseInjections over the elements of the array literal, from the i-th on;
\* a provider carries its object literal (node: element), here its index
RECURSIVE parseInjectionsFrom(_, _, _)
parseInjectionsFrom(elements, i, config) ==
    IF i > Len(elements) THEN config
    ELSE LET parsed == parseInjectionEntry(elements[i])
             provider == [token |-> parsed.token,
                          registrationType |-> parsed.registrationType,
                          node |-> i]
         IN IF parsed = NullProvider
            THEN parseInjectionsFrom(elements, i + 1, config)
            ELSE parseInjectionsFrom(elements, i + 1,
                     [localProviders |-> Append(config.localProviders, provider),
                      providedTokens |-> MapSet(config.providedTokens,
                                                provider.token.id, provider)])

(***************************************************************************)
(* Language service plugin: getSemanticDiagnostics                         *)
(***************************************************************************)
FileNames == {"src/a.ts", "src/b.ts", "types/api.d.ts", "node_modules/pkg/index.ts"}

\* sourceFile.isDeclarationFile
isDeclarationFile(fileName) == fileName = "types/api.d.ts"

\* fileName.includes('node_modules')
includesNodeModules(fileName) == fileName = "node_modules/pkg/index.ts"

\* the diagnostics of the host itself
HostDiagnostics(fileName) ==
    {[file |-> fileName, source |-> "ts", code |-> c] : c \in {2322, 2345}}

\* the violations a validation pass can report: their file and kind
DIErrors == [file : {"src/a.ts", "src/b.ts"}, type : {"missing", "mismatch"}]

\* ValidationEngine.validate(program): the violations of the whole program,
\* or an exception
validate(eng) == [threw |-> eng.throws, errors |-> eng.errors]

\* ValidationEngine.convertToDiagnostics: one diagnostic per violation, in
\* order, on the violation's file
convertToDiagnostics(errors) ==
    [i \in 1..Len(errors) |->
        [file |-> errors[i].file, source |-> "di-validator",
         code |-> IF errors[i].type = "missing" THEN 90001 ELSE 90002]]

\* errors.filter(...) with a predicate that keeps everything
FilterNothing(errors, fileName) == errors

\* errors.filter(error => error.file.fileName === currentFile.fileName)
RECURSIVE FilterErrors(_, _)
FilterErrors(errors, fileName) ==
    IF errors = <<>> THEN <<>>
    ELSE (IF Head(errors).file = fileName THEN <<Head(errors)>> ELSE <<>>)
             \o FilterErrors(Tail(errors), fileName)

validateDI(eng, currentFile) ==
    IF validate(eng).threw THEN [threw |-> TRUE, diagnostics |-> <<>>]
    ELSE [threw |-> FALSE,
          diagnostics |->
              convertToDiagnostics(FilterErrors(validate(eng).errors, currentFile))]

getSemanticDiagnostics(prog, eng, fileName, originalDiagnostics) ==
    IF ~prog.available THEN originalDiagnostics
    ELSE IF fileName \notin prog.sourceFiles THEN originalDiagnostics
    ELSE IF isDeclarationFile(fileName) THEN originalDiagnostics
    ELSE IF includesNodeModules(fileName) THEN originalDiagnostics
    ELSE IF validateDI(eng, fileName).threw THEN originalDiagnostics
    ELSE originalDiagnostics \o validateDI(eng, fileName).diagnostics

(***************************************************************************)
(* Runtime: useBuilder on a container provider                             *)
(***************************************************************************)
BuilderIds == {"app", "admin"}

ClassToken == [kind |-> "class", name |-> "Service"]
SymbolToken == [kind |-> "symbol", name |-> "TOKEN"]
InjectionTokens == {ClassToken, SymbolToken}

\* Symbol.for(`__builder__${config.builderId}`)
builderIdToken(builderId) == [kind |-> "symbol", name |-> "__builder__" \o builderId]

RuntimeTokens == InjectionTokens \cup {builderIdToken(b) : b \in BuilderIds}

isConstructor(token) == token.kind = "class"

\* an injections entry: its token and which of value, factory, provider it has
Entry(token, has) == [token |-> token, has |-> has]

RuntimeEntries ==
    {Entry(ClassToken, {}), Entry(SymbolToken, {}), Entry(SymbolToken, {"value"}),
     Entry(SymbolToken, {"factory"}), Entry(SymbolToken, {"provider"})}

ListenerEntries == [event : {"UserCreated"}, listener : {"SendMail"}]

\* the configs defineBuilderConfig returns: builderId, merged injections and
\* merged listeners
BuilderConfigs ==
    [builderId : BuilderIds,
     injections : SeqsUpTo(RuntimeEntries, MaxInjections),
     listeners : SeqsUpTo(ListenerEntries, MaxListeners)]

\* InversifyProvider: container.isBound / unbind / bind
Unbound == [kind |-> "unbound", to |-> "nothing"]

isRegistered(bnd, token) == bnd[token] # Unbound

registerValue(bnd, token, value) ==
    [bnd EXCEPT ![token] = [kind |-> "constant", to |-> value]]

registerFactory(bnd, token, factory) ==
    [bnd EXCEPT ![token] = [kind |-> "dynamic", to |-> factory]]

registerClass(bnd, token, impl) ==
    [bnd EXCEPT ![token] = [kind |-> "class", to |-> impl]]

\* a call the provider receives; unbind tells whether the token was bound
\* when the call came in
Call(method, token, index, bnd) ==
    [method |-> method, token |-> token, index |-> index,
     unbind |-> isRegistered(bnd, token)]

\* registerConfig with a skip test that never skips
SkipNever(bnd, entry) == FALSE

\* registerConfig: if (provider.isRegistered(entry.token)) return
SkipEntry(bnd, entry) == isRegistered(bnd, entry.token)

\* registerConfig without the test for a missing provider
ProviderMissingNever(entry) == FALSE

\* registerConfig: if (!('provider' in entry)) throw new Error('Provider required ...')
ProviderMissing(entry) == "provider" \notin entry.has

\* registerConfig: injections.forEach from entry i on; calls is the log so far
RECURSIVE registerConfig(_, _, _, _)
registerConfig(bnd, injections, i, calls) ==
    IF i > Len(injections)
    THEN [bindings |-> bnd, calls |-> calls, threw |-> FALSE]
    ELSE LET entry == injections[i]
         IN IF SkipEntry(bnd, entry)
            THEN registerConfig(bnd, injections, i + 1, calls)
            ELSE IF "value" \in entry.has
            THEN registerConfig(registerValue(bnd, entry.token, "value"),
                                injections, i + 1,
                                calls \o <<Call("value", entry.token, i, bnd),
                                           Call("registerValue", entry.token, i, bnd)>>)
            ELSE IF "factory" \in entry.has
            THEN registerConfig(registerFactory(bnd, entry.token, "factory"),
                                injections, i + 1,
                                Append(calls, Call("registerFactory", entry.token, i, bnd)))
            ELSE IF isConstructor(entry.token)
            THEN registerConfig(registerClass(bnd, entry.token, entry.token.name),
                                injections, i + 1,
                                Append(calls, Call("registerClass", entry.token, i, bnd)))
            ELSE IF ProviderMissing(entry)
            THEN [bindings |-> bnd, calls |-> calls, threw |-> TRUE]
            ELSE registerConfig(registerClass(bnd, entry.token, "Provider"),
                                injections, i + 1,
                                Append(calls, Call("registerClass", entry.token, i, bnd)))

\* MutableEventDispatcherProvider
NoListeners == [e \in {"UserCreated"} |-> <<>>]

\* a dispatcher that never reports a listener
hasListenerNever(disp, event, listener) == FALSE

hasListener(disp, event, listener) ==
    \E k \in 1..Len(disp.listeners[event]) : disp.listeners[event][k] = listener

register(disp, event, listener) ==
    [disp EXCEPT !.listeners[event] = Append(@, listener)]

\* registerEvent that takes a dispatcher to be configured
DispatcherConfiguredAlways(disp) == TRUE

\* registerEvent: hasEventDispatcherProvider()
DispatcherConfigured(disp) == disp.configured

\* registerEvent: listeners.forEach from entry i on
RECURSIVE registerEvent(_, _, _, _)
registerEvent(disp, listeners, i, calls) ==
    IF listeners = <<>> \/ ~DispatcherConfigured(disp) \/ i > Len(listeners)
    THEN [dispatcher |-> disp, calls |-> calls]
    ELSE IF hasListener(disp, listeners[i].event, listeners[i].listener)
    THEN registerEvent(disp, listeners, i + 1, calls)
    ELSE registerEvent(register(disp, listeners[i].event, listeners[i].listener),
                       listeners, i + 1, Append(calls, listeners[i]))

\* useBuilder with a test that always registers
NeedsRegistrationAlways(bnd, config) == TRUE

\* useBuilder: if (!provider.isRegistered(builderIdToken))
NeedsRegistration(bnd, config) == ~isRegistered(bnd, builderIdToken(config.builderId))

\* useBuilder: the provider and dispatcher it leaves, the calls it made and
\* whether it threw
useBuilder(bnd, disp, config) ==
    IF ~NeedsRegistration(bnd, config)
    THEN [bindings |-> bnd, dispatcher |-> disp, calls |-> <<>>,
          listenerCalls |-> <<>>, threw |-> FALSE]
    ELSE LET rc == registerConfig(bnd, config.injections, 1, <<>>)
             re == registerEvent(disp, config.listeners, 1, <<>>)
         IN IF rc.threw
            THEN [bindings |-> rc.bindings, dispatcher |-> disp, calls |-> rc.calls,
                  listenerCalls |-> <<>>, threw |-> TRUE]
            ELSE [bindings |-> registerValue(rc.bindings,
                                             builderIdToken(config.builderId),
                                             config.builderId),
                  dispatcher |-> re.dispatcher,
                  calls |-> Append(rc.calls,
                                   Call("registerValue",
                                        builderIdToken(config.builderId), 0,
                                        rc.bindings)),
                  listenerCalls |-> re.calls,
                  threw |-> FALSE]

\* the register calls of a log for one token, and for one listener entry
RegisterCalls(calls, token) ==
    Cardinality({k \in 1..Len(calls) :
                    calls[k].token = token /\ calls[k].method # "value"})

ListenerCalls(calls, entry) ==
    Cardinality({k \in 1..Len(calls) : calls[k] = entry})

(***************************************************************************)
(* defineBuilderConfig                                                     *)
(***************************************************************************)
\* an optional property: absent, or an array
Undefined == [defined |-> FALSE, items |-> <<>>]
Array(items) == [defined |-> TRUE, items |-> items]

\* x || []
OrEmpty(x) == IF x.defined THEN x.items ELSE <<>>

\* the listener entries written in configs
ConfigListeners == [event : {"UserCreated"}, listener : {"SendMail", "Audit"}]

\* the injection entries written in configs
ConfigInjections == {Entry(ClassToken, {}), Entry(SymbolToken, {"value"})}

\* definePartialConfig returns its argument: optional injections and listeners
PartialConfigs ==
    [injections : {Undefined} \cup {Array(<<e>>) : e \in ConfigInjections},
     listeners : {Undefined} \cup {Array(<<l>>) : l \in ConfigListeners}]

\* the argument of defineBuilderConfig
BuilderConfigArguments ==
    [builderId : {"app"},
     extends : {Undefined} \cup {Array(ps) : ps \in SeqsUpTo(PartialConfigs, MaxExtends)},
     injections : SeqsUpTo(ConfigInjections, MaxInjections),
     listeners : {Undefined} \cup {Array(ls) : ls \in SeqsUpTo(ConfigListeners, MaxListeners)}]

\* (config.extends || []).flatMap(p => p.injections || [])
RECURSIVE flatMapInjections(_)
flatMapInjections(partials) ==
    IF partials = <<>> THEN <<>>
    ELSE OrEmpty(Head(partials).injections) \o flatMapInjections(Tail(partials))

\* (config.extends || []).flatMap(p => p.listeners || [])
RECURSIVE flatMapListeners(_)
flatMapListeners(partials) ==
    IF partials = <<>> THEN <<>>
    ELSE OrEmpty(Head(partials).listeners) \o flatMapListeners(Tail(partials))

\* the injections merged the other way round
mergedPartialsFirst(config) ==
    flatMapInjections(OrEmpty(config.extends)) \o config.injections

\* defineBuilderConfig: mergedInjections, local injections first
mergedInjections(config) ==
    config.injections \o flatMapInjections(OrEmpty(config.extends))

\* defineBuilderConfig: mergedListeners, local listeners last
mergedListeners(config) ==
    flatMapListeners(OrEmpty(config.extends)) \o OrEmpty(config.listeners)

\* defineBuilderConfig: { ...config, injections, listeners }
defineBuilderConfig(config) ==
    [builderId |-> config.builderId,
     extends |-> config.extends,
     injections |-> mergedInjections(config),
     listeners |-> mergedListeners(config)]

(***************************************************************************)
(* Provider manager and EventDispatcher manager                            *)
(***************************************************************************)
\* currentProvider === null
NoProvider == [name |-> "null", disposeThrows |-> FALSE]

\* the container providers an application can configure; dispose() of a
\* provider may throw
ContainerProviders == [name : {"inversify", "tsyringe"}, disposeThrows : BOOLEAN]

\* useContainerProvider with a test that never finds a provider
AlreadyConfiguredNever(current) == FALSE

\* useContainerProvider: if (currentProvider !== null)
AlreadyConfigured(current) == current # NoProvider

useContainerProvider(current, provider) ==
    IF AlreadyConfigured(current)
    THEN [threw |-> TRUE, currentProvider |-> current]
    ELSE [threw |-> FALSE, currentProvider |-> provider]

getContainerProvider(current) ==
    IF current = NoProvider
    THEN [threw |-> TRUE, value |-> NoProvider]
    ELSE [threw |-> FALSE, value |-> current]

hasContainerProvider(current) == current # NoProvider

\* currentProvider.dispose() outside of a try block
DisposeUnguarded(provider) ==
    [calls |-> <<provider>>, threw |-> provider.disposeThrows]

\* resetContainerProvider: try { currentProvider.dispose() } catch { }
DisposeGuarded(provider) == [calls |-> <<provider>>, threw |-> FALSE]

resetContainerProvider(current) ==
    IF current = NoProvider
    THEN [threw |-> FALSE, currentProvider |-> NoProvider, disposeCalls |-> <<>>]
    ELSE IF DisposeGuarded(current).threw
    THEN [threw |-> TRUE, currentProvider |-> current,
          disposeCalls |-> DisposeGuarded(current).calls]
    ELSE [threw |-> FALSE, currentProvider |-> NoProvider,
          disposeCalls |-> DisposeGuarded(current).calls]

\* globalEventDispatcherProvider === null
NoEventProvider == [name |-> "null", clearAllListeners |-> "none"]

\* the event dispatcher providers: the default one, another implementation,
\* one whose clearAllListeners throws and one (a partial mock) without it
EventProviders ==
    {[name |-> "mutable-event-dispatcher", clearAllListeners |-> "clears"],
     [name |-> "custom", clearAllListeners |-> "clears"],
     [name |-> "failing", clearAllListeners |-> "throws"],
     [name |-> "mock", clearAllListeners |-> "missing"]}

useEventDispatcherProvider(global, provider) ==
    IF global # NoEventProvider
    THEN [threw |-> TRUE, provider |-> global]
    ELSE [threw |-> FALSE, provider |-> provider]

getEventDispatcherProvider(global) ==
    IF global = NoEventProvider
    THEN [threw |-> TRUE, value |-> NoEventProvider]
    ELSE [threw |-> FALSE, value |-> global]

hasEventDispatcherProvider(global) == global # NoEventProvider

\* provider.clearAllListeners(): throws when the provider's method throws or
\* is not a function
clearAllListeners(provider) ==
    [threw |-> provider.clearAllListeners # "clears"]

\* resetEventDispatcherProvider: the provider and whether the listeners of the
\* provider it found were cleared
resetEventDispatcherProvider(global) ==
    IF global = NoEventProvider
    THEN [threw |-> FALSE, provider |-> NoEventProvider, cleared |-> FALSE]
    ELSE IF clearAllListeners(global).threw
    THEN [threw |-> TRUE, provider |-> global, cleared |-> FALSE]
    ELSE [threw |-> FALSE, provider |-> NoEventProvider, cleared |-> TRUE]

(***************************************************************************)
(* Types of defineBuilderConfig: ValidateInjections                        *)
(***************************************************************************)
\* types of tokens: the types of two const symbols, the type symbol, and the
\* types of a class and of a class that extends it
TokenType(kind, name, super) == [kind |-> kind, name |-> name, super |-> super]

TokenTypes ==
    {TokenType("unique symbol", "LOGGER", ""), TokenType("unique symbol", "REPO", ""),
     TokenType("symbol", "symbol", ""),
     TokenType("class", "Base", ""), TokenType("class", "Derived", "Base")}

\* T extends U: T is U, a unique symbol against symbol, or the constructor
\* of a subclass against the constructor of its superclass
Extends(T, U) ==
    \/ T = U
    \/ T.kind = "unique symbol" /\ U.kind = "symbol"
    \/ T.kind = "class" /\ U.kind = "class" /\ T.super = U.name

\* the types of the entries of an injections array literal
EntryTypes ==
    {Entry(T, IF T.kind = "class" THEN {} ELSE {"provider"}) : T \in TokenTypes}

\* ExtractTokens<T>: the tuple of the token types of a tuple of entries
ExtractTokens(T) == [K \in DOMAIN T |-> T[K].token]

\* TypedPartialConfig<C, Tokens>
TypedPartialConfig(Tokens) == [tokens |-> Tokens]

\* the type definePartialConfig returns for an injections literal
definePartialConfigType(I) == TypedPartialConfig(ExtractTokens(I))

\* the partials a config extends: each with no or one injection
TypedPartials == {definePartialConfigType(I) : I \in SeqsUpTo(EntryTypes, 1)}

\* ExtractTokensFromTypedPartials<T>
RECURSIVE ExtractTokensFromTypedPartials(_)
ExtractTokensFromTypedPartials(T) ==
    IF T = <<>> THEN <<>>
    ELSE Head(T).tokens \o ExtractTokensFromTypedPartials(Tail(T))

\* Tuple[number]: the union of the element types, never for the empty tuple
IndexedByNumber(Tuple) == {Tuple[K] : K \in DOMAIN Tuple}

\* the error object type of ValidateInjections
TokenCollision(T) ==
    [error |-> "[WireDI] This token is already registered in a partial.",
     token |-> T,
     hint |-> "Each token can only be registered once."]

\* ValidateInjections<LocalInjections, InheritedTokenUnion>
ValidateInjections(LocalInjections, InheritedTokenUnion) ==
    IF InheritedTokenUnion = {}
    THEN LocalInjections
    ELSE [K \in DOMAIN LocalInjections |->
             IF \E U \in InheritedTokenUnion : Extends(LocalInjections[K].token, U)
             THEN TokenCollision(LocalInjections[K].token)
             ELSE LocalInjections[K]]

\* defineBuilderConfig: the type of the injections property for the inferred
\* Partials and LocalInjections
InjectionsParameter(Partials, LocalInjections) ==
    ValidateInjections(LocalInjections,
                       IndexedByNumber(ExtractTokensFromTypedPartials(Partials)))

(***************************************************************************)
(* Types of defineBuilderConfig: ValidateListeners                         *)
(***************************************************************************)
\* the types of the entries of a listeners array literal: typeof an event
\* class and typeof a listener class
ListenerEntryTypes ==
    [event : {"typeof UserCreatedEvent", "typeof ProductCreatedEvent"},
     listener : {"typeof EmailListener", "typeof SmsListener"}]

\* EventEntry: { event: Constructor, listener: Constructor }
EventEntry == [event |-> "Constructor", listener |-> "Constructor"]

\* what definePartialConfig returns for a listeners literal: the object keeps
\* the literal, its type TypedPartialConfig has listeners?: EventConfig
ListenerPartials ==
    {[tokens |-> <<>>, listeners |-> declared] :
        declared \in {Undefined} \cup {Array(<<l>>) : l \in ListenerEntryTypes}}

\* ExtractListenersFromPartials<T>: the union of the L with
\* Head extends { listeners?: readonly (infer L)[] }, never for no partial;
\* every Head is a TypedPartialConfig, whose listeners are an EventConfig
RECURSIVE ExtractListenersFromPartials(_)
ExtractListenersFromPartials(T) ==
    IF T = <<>> THEN {}
    ELSE {EventEntry} \cup ExtractListenersFromPartials(Tail(T))

\* StrictEquals<A, B>
StrictEquals(A, B) == A = B

\* IsListenerInUnion<E, L, Union>, a union of the literal types true and
\* false written as a set: the conditional distributes over Union, each
\* member that is not (E, L) recurses on Exclude<member, member> = never, and
\* a distributive conditional on never is never
IsListenerInUnion(E, L, Union) ==
    IF \E U \in Union : StrictEquals(E, U.event) /\ StrictEquals(L, U.listener)
    THEN {"true"}
    ELSE {}

\* X extends true, for X a union of true and false: never extends true
ExtendsTrue(X) == X \subseteq {"true"}

\* the error object type of ValidateListenersAgainstPartials
ListenerInPartial(E, L) ==
    [error |-> "[WireDI] This event listener is already registered in a partial",
     event |-> E, listener |-> L,
     hint |-> "Each (event, listener) pair can only be registered once."]

ValidateListenersAgainstPartials(LocalListeners, InheritedListenerUnion) ==
    [K \in DOMAIN LocalListeners |->
        IF ExtendsTrue(IsListenerInUnion(LocalListeners[K].event,
                                         LocalListeners[K].listener,
                                         InheritedListenerUnion))
        THEN ListenerInPartial(LocalListeners[K].event, LocalListeners[K].listener)
        ELSE LocalListeners[K]]

\* HasExactDuplicate<E, L, Rest>
RECURSIVE HasExactDuplicate(_, _, _)
HasExactDuplicate(E, L, Rest) ==
    IF Rest = <<>> THEN FALSE
    ELSE IF StrictEquals(E, Head(Rest).event) /\ StrictEquals(L, Head(Rest).listener)
    THEN TRUE
    ELSE HasExactDuplicate(E, L, Tail(Rest))

\* the error object type of ValidateListenersInternal
DuplicateListener(E, L) ==
    [error |-> "[WireDI] Duplicate listener in the same configuration",
     event |-> E, listener |-> L,
     hint |-> "Each (event, listener) pair must be unique within the configuration."]

\* ValidateListenersInternal<T>
RECURSIVE ValidateListenersInternal(_)
ValidateListenersInternal(T) ==
    IF T = <<>> THEN T
    ELSE IF HasExactDuplicate(Head(T).event, Head(T).listener, Tail(T))
    THEN <<DuplicateListener(Head(T).event, Head(T).listener)>>
             \o ValidateListenersInternal(Tail(T))
    ELSE <<Head(T)>> \o ValidateListenersInternal(Tail(T))

\* ValidateListeners<LocalListeners, InheritedListenerUnion>
ValidateListeners(LocalListeners, InheritedListenerUnion) ==
    IF InheritedListenerUnion = {}
    THEN ValidateListenersInternal(LocalListeners)
    ELSE ValidateListenersAgainstPartials(LocalListeners, InheritedListenerUnion)

\* defineBuilderConfig: the type of the listeners property for the inferred
\* Partials and LocalListeners
ListenersParameter(Partials, LocalListeners) ==
    ValidateListeners(LocalListeners, ExtractListenersFromPartials(Partials))

(***************************************************************************)
(* InversifyProvider and AwilixProvider: initialization and scopes         *)
(***************************************************************************)
AdapterKinds == {"inversify", "awilix"}

\* ProviderLifecycle, or no lifecycle argument
Lifecycles == {"absent", "Singleton", "Transient", "Scoped"}

\* BindingScope
BindingScopes == {"Singleton", "Transient", "Request"}

\* the options of an adapter: whether they carry a container, and the
\* defaultScope of InversifyProviderOptions
AdapterOptions(kind) ==
    [container : BOOLEAN,
     defaultScope : IF kind = "inversify" THEN {"absent"} \cup BindingScopes
                    ELSE {"absent"}]

\* this.container: null, options.container, or the n-th container created
NullContainer == [origin |-> "null", id |-> 0]
OptionsContainer == [origin |-> "options", id |-> 0]
NewContainer(n) == [origin |-> "created", id |-> n]

NothingBound == [t \in InjectionTokens |-> "unbound"]

\* constructor: this.defaultScope = options.defaultScope ?? 'Singleton';
\* this.container = null as any
construct(kind, options) ==
    [kind |-> kind, options |-> options,
     defaultScope |-> IF options.defaultScope = "absent" THEN "Singleton"
                      ELSE options.defaultScope,
     container |-> NullContainer, created |-> 0, awaiting |-> 0,
     bound |-> NothingBound]

\* options.container ?? new Container()
containerOrNew(a) ==
    IF a.options.container THEN OptionsContainer ELSE NewContainer(a.created + 1)

\* the provider after this.container = c: the bindings seen are those of c
withContainer(a, c) ==
    [a EXCEPT !.container = c,
              !.created = IF c.origin = "created" THEN c.id ELSE @,
              !.bound = IF c = a.container THEN @ ELSE NothingBound]

\* createSync
createSync(kind, options) ==
    withContainer(construct(kind, options), containerOrNew(construct(kind, options)))

\* ensureInitializedSync: whether it throws 'Container not initialized'
ensureInitializedSync(a) == a.container = NullContainer

\* InversifyProvider.mapLifecycle
mapLifecycle(lifecycle) ==
    CASE lifecycle = "Transient" -> "Transient"
      [] lifecycle = "Scoped" -> "Request"
      [] OTHER -> "Singleton"

\* AwilixProvider.mapLifecycle
mapLifetime(lifecycle) ==
    CASE lifecycle = "Transient" -> "TRANSIENT"
      [] lifecycle = "Scoped" -> "SCOPED"
      [] OTHER -> "SINGLETON"

\* the operations of a ContainerProvider
AdapterOperations ==
    {"registerValue", "registerFactory", "registerClass", "isRegistered",
     "resolve", "createScope", "getUnderlyingContainer"}

\* one operation: whether it threw 'Container not initialized' and the
\* provider it leaves
operate(a, op, token, lifecycle) ==
    IF ensureInitializedSync(a) THEN [threw |-> TRUE, adapter |-> a]
    ELSE [threw |-> FALSE,
          adapter |->
              CASE op = "registerValue" -> [a EXCEPT !.bound[token] = "constant"]
                [] op = "registerFactory" -> [a EXCEPT !.bound[token] = "dynamic"]
                [] op = "registerClass" ->
                       [a EXCEPT !.bound[token] =
                            IF a.kind = "inversify" THEN mapLifecycle(lifecycle)
                            ELSE mapLifetime(lifecycle)]
                [] OTHER -> a]

(***************************************************************************)
(* AwilixProvider: registration names                                      *)
(***************************************************************************)
\* tokens: two symbols with the same description, two symbols without a
\* description, a class whose name is that description
AwilixToken(kind, id, text) == [kind |-> kind, id |-> id, text |-> text]

AwilixTokens ==
    {AwilixToken("symbol", 1, "Service"), AwilixToken("symbol", 2, "Service"),
     AwilixToken("symbol", 3, "undefined"), AwilixToken("symbol", 4, "undefined"),
     AwilixToken("class", 5, "Service")}

\* a registration name: a description or class name, or `token_${n}`
PlainName(text) == [text |-> text, n |-> -1]
CounterName(n) == [text |-> "token_", n |-> n]
NoName == [text |-> "", n |-> -1]

\* the names there are, and no resolver registered under a name
AwilixNames ==
    {PlainName(t.text) : t \in AwilixTokens}
        \cup {CounterName(n) : n \in 0..Cardinality(AwilixTokens)}
NoToken == AwilixToken("none", 0, "")

\* new Map(), nameCounter = 0, a container without registrations; a
\* registration is the resolver of the token it was registered for
NewAwilixProvider ==
    [tokenToName |-> [t \in AwilixTokens |-> NoName], nameCounter |-> 0,
     registrations |-> [name \in AwilixNames |-> NoToken]]

\* getTokenName: the provider it leaves and the name it returns
getTokenName(provider, token) ==
    IF provider.tokenToName[token] # NoName
    THEN [provider |-> provider, name |-> provider.tokenToName[token]]
    ELSE IF token.kind = "symbol" /\ token.text = "undefined"
    THEN [provider |-> [provider EXCEPT
                            !.tokenToName[token] = CounterName(provider.nameCounter),
                            !.nameCounter = @ + 1],
          name |-> CounterName(provider.nameCounter)]
    ELSE [provider |-> [provider EXCEPT !.tokenToName[token] = PlainName(token.text)],
          name |-> PlainName(token.text)]

\* registerValue / registerFactory / registerClass: container.register({ [name]: ... })
awilixRegister(provider, token) ==
    LET got == getTokenName(provider, token)
    IN [got.provider EXCEPT !.registrations[got.name] = token]

\* container.getRegistration(name): a scoped container also finds the
\* registrations of the container it was created from; NoToken for none
getRegistration(own, inherited, name) ==
    IF own[name] # NoToken THEN own[name] ELSE inherited[name]

\* container.hasRegistration(name)
hasRegistration(own, inherited, name) ==
    getRegistration(own, inherited, name) # NoToken

\* createScope: createSync on container.createScope(), then the names copied
awilixCreateScope(provider) ==
    [NewAwilixProvider EXCEPT !.tokenToName = provider.tokenToName]

(***************************************************************************)
(* Following import aliases: the three while loops                         *)
(***************************************************************************)
\* the components that follow import aliases
AliasFollowers == {"TokenNormalizer", "ConfigurationAnalyzer", "DependencyAnalyzer"}

\* only TokenNormalizer.resolveAlias keeps a visited set
KeepsVisited(component) == component = "TokenNormalizer"

\* the symbols getSymbolAtLocation hands to a loop
FollowedSymbols == AliasSymbols \cup {Decl(1)}

NoFollowing ==
    [component |-> "none", current |-> NoSym, visited |-> {},
     pc |-> "idle", result |-> NoSym]

\* let current = symbol (TokenNormalizer: const visited = new Set())
enterLoop(component, symbol) ==
    [component |-> component, current |-> symbol, visited |-> {},
     pc |-> "while", result |-> NoSym]

\* while (current.flags & SymbolFlags.Alias); TokenNormalizer then returns
\* null for a visited symbol and adds the symbol to the visited set
whileTest(loop) ==
    IF loop.current \notin AliasSymbols
    THEN [loop EXCEPT !.pc = "returned", !.result = loop.current]
    ELSE IF KeepsVisited(loop.component) /\ loop.current \in loop.visited
    THEN [loop EXCEPT !.pc = "returned", !.result = NoSym]
    ELSE [loop EXCEPT !.pc = "getAliasedSymbol",
                      !.visited = IF KeepsVisited(loop.component)
                                  THEN loop.visited \cup {loop.current}
                                  ELSE loop.visited]

\* current = checker.getAliasedSymbol(current); the catch clause leaves the
\* loop with the current symbol
getAliasedSymbol(loop) ==
    IF symtab.target[loop.current] = Throws
    THEN [loop EXCEPT !.pc = "returned", !.result = loop.current]
    ELSE [loop EXCEPT !.pc = "while", !.current = symtab.target[loop.current]]

(***************************************************************************)
(* MutableEventDispatcherProvider                                          *)
(***************************************************************************)
\* event classes (EventToken): two different classes may carry the same name
EventClasses ==
    {[class |-> 1, name |-> "UserCreated"],
     [class |-> 2, name |-> "UserCreated"],
     [class |-> 3, name |-> "OrderPlaced"]}

\* listener tokens
ListenerTokens == {"SendMail", "Audit"}

\* an event object: new E(...)
EventOf(eventToken) == [constructor |-> eventToken]

\* getEventName: eventToken.name
getEventName(eventToken) == eventToken.name

\* getEventNameFromInstance: event.constructor.name
getEventNameFromInstance(event) == event.constructor.name

\* new Map()
EmptyMap == [n \in {} |-> <<>>]

\* this.listeners.get(eventName) ?? []
getOrEmpty(map, eventName) ==
    IF eventName \in DOMAIN map THEN map[eventName] ELSE <<>>

\* register: set(eventName, []) when absent, then push(listenerToken)
MutableRegister(map, eventToken, listenerToken) ==
    [n \in DOMAIN map \cup {getEventName(eventToken)} |->
        IF n = getEventName(eventToken)
        THEN Append(getOrEmpty(map, n), listenerToken)
        ELSE map[n]]

\* the first n entries of a list up to and including the first in a set
RECURSIVE UpToFirst(_, _, _)
UpToFirst(tokens, failing, i) ==
    IF i > Len(tokens) THEN <<>>
    ELSE IF tokens[i] \in failing THEN <<tokens[i]>>
    ELSE <<tokens[i]>> \o UpToFirst(tokens, failing, i + 1)

\* dispatch: the listeners resolved and called in order, up to the first whose
\* resolution or onEvent throws
MutableDispatch(map, event, failing) ==
    LET listenerTokens == getOrEmpty(map, getEventNameFromInstance(event))
    IN [invoked |-> UpToFirst(listenerTokens, failing, 1),
        threw |-> \E k \in 1..Len(listenerTokens) : listenerTokens[k] \in failing]

MutableHasListeners(map, eventToken) ==
    /\ getEventName(eventToken) \in DOMAIN map
    /\ Len(map[getEventName(eventToken)]) > 0

MutableHasListener(map, eventToken, listenerToken) ==
    /\ getEventName(eventToken) \in DOMAIN map
    /\ \E k \in 1..Len(map[getEventName(eventToken)]) :
           map[getEventName(eventToken)][k] = listenerToken

\* clearListeners: this.listeners.delete(eventName)
MutableClearListeners(map, eventToken) ==
    [n \in DOMAIN map \ {getEventName(eventToken)} |-> map[n]]

\* clearAllListeners: this.listeners.clear()
MutableClearAllListeners(map) == EmptyMap

\* the (event class, listener) pairs hasListener reports
Reported(map) ==
    {pair \in EventClasses \X ListenerTokens :
        MutableHasListener(map, pair[1], pair[2])}

(***************************************************************************)
(* Idle values: the parts a specification does not exercise                *)
(***************************************************************************)
NoCall == [call |-> "none"]
NoProgram == [available |-> FALSE, sourceFiles |-> {}]
NoEngine == [throws |-> FALSE, errors |-> <<>>]
NoDiagnostics == [called |-> FALSE]

IdleCfg == configs = <<>> /\ visitedConfigs = {} /\ resolved = NoResult
IdleTok == symtab = <<>> /\ normalized = <<>>
IdleExt == extracted = NoCall
IdleDiag == program = NoProgram /\ engine = NoEngine /\ diagnostics = NoDiagnostics

NoUse == [called |-> FALSE]
NoRegistrations ==
    [injections |-> [b \in BuilderIds |-> [t \in InjectionTokens |-> 0]],
     listeners |-> [b \in BuilderIds |-> [l \in ListenerEntries |-> 0]]]

IdleRun ==
    /\ bindings = <<>>
    /\ dispatcher = [configured |-> FALSE, listeners |-> NoListeners]
    /\ used = NoUse
    /\ registrations = NoRegistrations

NoDefined == [called |-> FALSE]
IdleDef == defined = NoDefined

NoSubject == [builderId |-> "", injections |-> <<>>, listeners |-> <<>>]
IdleUse == subject = NoSubject

NoTyped == [called |-> FALSE]
IdleType == typed = NoTyped

NoAdapter == [kind |-> "none"]
NoAdapted == [op |-> "none"]
IdleAdp == adapter = NoAdapter /\ adapted = NoAdapted

NoAwilix == [scoped |-> FALSE]
IdleAwx == awilix = NoAwilix

IdleAlias == following = NoFollowing

IdleShare == builders = <<>> /\ firstUse = <<>>

NoObserved == [op |-> "none"]
NeverRegistered == [c \in EventClasses |-> {}]
IdleEvt ==
    /\ eventListeners = EmptyMap
    /\ registeredFor = NeverRegistered
    /\ observed = NoObserved

NoManaged == [op |-> "none"]

IdleMgr ==
    /\ currentProvider = NoProvider
    /\ globalEventDispatcherProvider = NoEventProvider
    /\ listening = [q \in EventProviders |-> FALSE]
    /\ managed = NoManaged

(***************************************************************************)
(* Specification of defineBuilderConfig                                    *)
(***************************************************************************)
InitDef ==
    /\ defined = NoDefined
    /\ IdleCfg /\ IdleTok /\ IdleExt /\ IdleDiag /\ IdleRun /\ IdleMgr /\ IdleUse /\ IdleEvt /\ IdleType /\ IdleAdp /\ IdleAwx /\ IdleAlias /\ IdleShare

\* one call is looked at per behaviour
DefineBuilderConfig(config) ==
    /\ defined = NoDefined
    /\ defined' = [called |-> TRUE, config |-> config,
                    result |-> defineBuilderConfig(config)]

NextDef ==
    /\ defined = NoDefined
    /\ \E config \in BuilderConfigArguments : DefineBuilderConfig(config)
    /\ UNCHANGED <<cfgVars, tokVars, extVars, diagVars, runVars, mgrVars, useVars, evtVars, typeVars, adpVars, awxVars, aliasVars, shareVars>>

SpecDef == InitDef /\ [][NextDef]_vars

(***************************************************************************)
(* Specification of the two managers                                       *)
(***************************************************************************)
InitMgr ==
    /\ IdleMgr
    /\ IdleCfg /\ IdleTok /\ IdleExt /\ IdleDiag /\ IdleRun /\ IdleDef /\ IdleUse /\ IdleEvt /\ IdleType /\ IdleAdp /\ IdleAwx /\ IdleAlias /\ IdleShare

\* the record of a call: what the managers held before it and its outcome
Managed(op, arg, threw, value, disposeCalls) ==
    [op |-> op, arg |-> arg,
     provider |-> currentProvider,
     eventProvider |-> globalEventDispatcherProvider,
     listened |-> listening,
     threw |-> threw, value |-> value, disposeCalls |-> disposeCalls]

UseContainerProvider(p) ==
    /\ currentProvider' = useContainerProvider(currentProvider, p).currentProvider
    /\ managed' = Managed("useContainerProvider", p,
                           useContainerProvider(currentProvider, p).threw,
                           NoProvider, <<>>)
    /\ UNCHANGED <<globalEventDispatcherProvider, listening>>

GetContainerProvider ==
    /\ managed' = Managed("getContainerProvider", NoProvider,
                           getContainerProvider(currentProvider).threw,
                           getContainerProvider(currentProvider).value, <<>>)
    /\ UNCHANGED <<currentProvider, globalEventDispatcherProvider, listening>>

HasContainerProvider ==
    /\ managed' = Managed("hasContainerProvider", NoProvider, FALSE,
                           hasContainerProvider(currentProvider), <<>>)
    /\ UNCHANGED <<currentProvider, globalEventDispatcherProvider, listening>>

ResetContainerProvider ==
    /\ currentProvider' = resetContainerProvider(currentProvider).currentProvider
    /\ managed' = Managed("resetContainerProvider", NoProvider,
                           resetContainerProvider(currentProvider).threw,
                           NoProvider,
                           resetContainerProvider(currentProvider).disposeCalls)
    /\ UNCHANGED <<globalEventDispatcherProvider, listening>>

UseEventDispatcherProvider(q) ==
    /\ globalEventDispatcherProvider' =
           useEventDispatcherProvider(globalEventDispatcherProvider, q).provider
    /\ managed' = Managed("useEventDispatcherProvider", q,
                           useEventDispatcherProvider(globalEventDispatcherProvider, q).threw,
                           NoEventProvider, <<>>)
    /\ UNCHANGED <<currentProvider, listening>>

GetEventDispatcherProvider ==
    /\ managed' = Managed("getEventDispatcherProvider", NoEventProvider,
                           getEventDispatcherProvider(globalEventDispatcherProvider).threw,
                           getEventDispatcherProvider(globalEventDispatcherProvider).value,
                           <<>>)
    /\ UNCHANGED <<currentProvider, globalEventDispatcherProvider, listening>>

HasEventDispatcherProvider ==
    /\ managed' = Managed("hasEventDispatcherProvider", NoEventProvider, FALSE,
                           hasEventDispatcherProvider(globalEventDispatcherProvider),
                           <<>>)
    /\ UNCHANGED <<currentProvider, globalEventDispatcherProvider, listening>>

\* getEventDispatcherProvider().register(event, listener)
RegisterListener ==
    /\ globalEventDispatcherProvider # NoEventProvider
    /\ listening' = [listening EXCEPT ![globalEventDispatcherProvider] = TRUE]
    /\ managed' = Managed("register", NoEventProvider, FALSE, NoEventProvider, <<>>)
    /\ UNCHANGED <<currentProvider, globalEventDispatcherProvider>>

ResetEventDispatcherProvider ==
    /\ globalEventDispatcherProvider' =
           resetEventDispatcherProvider(globalEventDispatcherProvider).provider
    /\ listening' =
           IF resetEventDispatcherProvider(globalEventDispatcherProvider).cleared
           THEN [listening EXCEPT ![globalEventDispatcherProvider] = FALSE]
           ELSE listening
    /\ managed' = Managed("resetEventDispatcherProvider", NoEventProvider,
                           resetEventDispatcherProvider(globalEventDispatcherProvider).threw,
                           NoEventProvider, <<>>)
    /\ UNCHANGED currentProvider

NextMgr ==
    /\ \/ \E p \in ContainerProviders : UseContainerProvider(p)
       \/ GetContainerProvider
       \/ HasContainerProvider
       \/ ResetContainerProvider
       \/ \E q \in EventProviders : UseEventDispatcherProvider(q)
       \/ GetEventDispatcherProvider
       \/ HasEventDispatcherProvider
       \/ RegisterListener
       \/ ResetEventDispatcherProvider
    /\ UNCHANGED <<cfgVars, tokVars, extVars, diagVars, runVars, defVars, useVars, evtVars, typeVars, adpVars, awxVars, aliasVars, shareVars>>

SpecMgr == InitMgr /\ [][NextMgr]_vars

(***************************************************************************)
(* Specification of the adapters' initialization                           *)
(***************************************************************************)
Adapted(op, token, lifecycle, threw, replaced, lost, initCompleted, sync) ==
    [op |-> op, token |-> token, lifecycle |-> lifecycle, threw |-> threw,
     replaced |-> replaced, lost |-> lost, initCompleted |-> initCompleted,
     sync |-> sync]

\* new Provider(options) or Provider.createSync(module, options)
InitAdp ==
    /\ \E kind \in AdapterKinds, sync \in BOOLEAN :
           \E options \in AdapterOptions(kind) :
               /\ adapter = IF sync THEN createSync(kind, options)
                            ELSE construct(kind, options)
               /\ adapted = Adapted("none", ClassToken, "absent", FALSE, FALSE, {},
                                    FALSE, sync)
    /\ IdleCfg /\ IdleTok /\ IdleExt /\ IdleDiag /\ IdleRun /\ IdleMgr /\ IdleDef /\ IdleUse /\ IdleEvt /\ IdleType /\ IdleAwx /\ IdleAlias /\ IdleShare

\* init() up to the await: ensureInitialized returns when the container is
\* set, otherwise the call waits for import()
InitCall ==
    IF adapter.container # NullContainer
    THEN /\ adapted' = Adapted("init", ClassToken, "absent", FALSE, FALSE, {},
                                TRUE, adapted.sync)
         /\ UNCHANGED adapter
    ELSE /\ adapter.awaiting < MaxOverlap
         /\ adapter' = [adapter EXCEPT !.awaiting = @ + 1]
         /\ adapted' = Adapted("init called", ClassToken, "absent", FALSE, FALSE, {},
                                adapted.initCompleted, adapted.sync)

\* init() after the await: this.container = options.container ?? new Container()
InitResume ==
    /\ adapter.awaiting > 0
    /\ \E next \in {withContainer([adapter EXCEPT !.awaiting = @ - 1],
                                  containerOrNew(adapter))} :
           /\ adapter' = next
           /\ adapted' = Adapted("init", ClassToken, "absent", FALSE,
                                  /\ adapter.container # NullContainer
                                  /\ next.container # adapter.container,
                                  {t \in InjectionTokens :
                                      adapter.bound[t] # "unbound"
                                          /\ next.bound[t] = "unbound"},
                                  TRUE, adapted.sync)

\* one ContainerProvider operation
Operate(op, token, lifecycle) ==
    /\ op \in {"registerValue", "registerFactory"} => ~isConstructor(token)
    /\ lifecycle # "absent" => op = "registerClass"
    /\ \E out \in {operate(adapter, op, token, lifecycle)} :
           /\ adapter' = out.adapter
           /\ adapted' = Adapted(op, token, lifecycle, out.threw, FALSE, {},
                                  adapted.initCompleted, adapted.sync)

NextAdp ==
    /\ \/ InitCall
       \/ InitResume
       \/ \E op \in AdapterOperations, token \in InjectionTokens,
             lifecycle \in Lifecycles :
              Operate(op, token, lifecycle)
    /\ UNCHANGED <<cfgVars, tokVars, extVars, diagVars, runVars, mgrVars, defVars, useVars, evtVars, typeVars, awxVars, aliasVars, shareVars>>

SpecAdp == InitAdp /\ [][NextAdp]_vars

(***************************************************************************)
(* Specification of the AwilixProvider's names                             *)
(***************************************************************************)
\* AwilixProvider.createSync(awilix)
InitAwx ==
    /\ awilix = [scoped |-> FALSE, root |-> NewAwilixProvider,
                 scope |-> NewAwilixProvider]
    /\ IdleCfg /\ IdleTok /\ IdleExt /\ IdleDiag /\ IdleRun /\ IdleMgr /\ IdleDef /\ IdleUse /\ IdleEvt /\ IdleType /\ IdleAdp /\ IdleAlias /\ IdleShare

\* the providers there are
Providers == IF awilix.scoped THEN {"root", "scope"} ELSE {"root"}

\* registerValue, registerFactory or registerClass of a token
AwilixRegister(on, token) ==
    /\ on \in Providers
    /\ awilix' = [awilix EXCEPT ![on] = awilixRegister(@, token)]

\* the registrations a provider's container inherits
Inherited(on) ==
    IF on = "scope" THEN awilix.root.registrations
    ELSE NewAwilixProvider.registrations

\* isRegistered(token), resolve(token): getTokenName gives the token a name
AwilixIsRegistered(on, token) ==
    /\ on \in Providers
    /\ awilix' = [awilix EXCEPT ![on] = getTokenName(@, token).provider]

\* createScope()
AwilixCreateScope ==
    /\ ~awilix.scoped
    /\ awilix' = [awilix EXCEPT !.scoped = TRUE,
                                 !.scope = awilixCreateScope(awilix.root)]

NextAwx ==
    /\ \/ \E on \in {"root", "scope"}, token \in AwilixTokens : AwilixRegister(on, token)
       \/ \E on \in {"root", "scope"}, token \in AwilixTokens :
              AwilixIsRegistered(on, token)
       \/ AwilixCreateScope
    /\ UNCHANGED <<cfgVars, tokVars, extVars, diagVars, runVars, mgrVars, defVars, useVars, evtVars, typeVars, adpVars, aliasVars, shareVars>>

SpecAwx == InitAwx /\ [][NextAwx]_vars

(***************************************************************************)
(* Specification of the alias loops                                        *)
(***************************************************************************)
\* the alias graphs: every target of every alias, cycles included
AliasTables ==
    {st \in SymbolTables :
        /\ \A sy \in DeclSymbols : st.shape[sy].node = "ClassDeclaration"
        /\ st.site[Decl(2)] = <<"tokens.ts", 20>>}

InitAlias ==
    /\ symtab \in AliasTables
    /\ normalized = <<>>
    /\ following = NoFollowing
    /\ IdleCfg /\ IdleExt /\ IdleDiag /\ IdleRun /\ IdleMgr /\ IdleDef /\ IdleUse /\ IdleEvt /\ IdleType /\ IdleAdp /\ IdleAwx /\ IdleShare

\* a component is handed a symbol and enters its loop
EnterLoop(component, symbol) ==
    /\ following.pc \in {"idle", "returned"}
    /\ following' = enterLoop(component, symbol)

\* the loop condition is evaluated
WhileTest ==
    /\ following.pc = "while"
    /\ following' = whileTest(following)

\* the loop body runs
GetAliasedSymbol ==
    /\ following.pc = "getAliasedSymbol"
    /\ following' = getAliasedSymbol(following)

\* one step of a running loop
LoopStep ==
    /\ WhileTest \/ GetAliasedSymbol
    /\ UNCHANGED <<cfgVars, tokVars, extVars, diagVars, runVars, mgrVars, defVars, useVars, evtVars, typeVars, adpVars, awxVars, shareVars>>

NextAlias ==
    \/ /\ \E component \in AliasFollowers : \E symbol \in FollowedSymbols :
             EnterLoop(component, symbol)
       /\ UNCHANGED <<cfgVars, tokVars, extVars, diagVars, runVars, mgrVars, defVars, useVars, evtVars, typeVars, adpVars, awxVars, shareVars>>
    \/ LoopStep

\* a loop that was entered keeps running: the call is synchronous
SpecAlias == InitAlias /\ [][NextAlias]_vars /\ WF_vars(LoopStep)

(***************************************************************************)
(* Specification of the type check of a defineBuilderConfig call           *)
(***************************************************************************)
InitType ==
    /\ IdleType
    /\ IdleCfg /\ IdleTok /\ IdleExt /\ IdleDiag /\ IdleRun /\ IdleMgr /\ IdleDef /\ IdleUse /\ IdleEvt /\ IdleAdp /\ IdleAwx /\ IdleAlias /\ IdleShare

\* the type checker on defineBuilderConfig({ extends, injections }): the type
\* it imposes on each entry of the injections literal
CheckBuilderConfig(Partials, LocalInjections) ==
    /\ typed = NoTyped
    /\ typed' = [called |-> TRUE, extends |-> Partials, injections |-> LocalInjections,
                 imposed |-> InjectionsParameter(Partials, LocalInjections),
                 listeners |-> <<>>, imposedListeners |-> <<>>]

\* the type checker on defineBuilderConfig({ extends, injections: [],
\* listeners }): the type it imposes on each entry of the listeners literal
CheckListeners(Partials, LocalListeners) ==
    /\ typed = NoTyped
    /\ typed' = [called |-> TRUE, extends |-> Partials, injections |-> <<>>,
                 imposed |-> <<>>,
                 listeners |-> LocalListeners,
                 imposedListeners |-> ListenersParameter(Partials, LocalListeners)]

NextType ==
    /\ typed = NoTyped
    /\ \/ \E Partials \in SeqsUpTo(TypedPartials, MaxExtends),
             LocalInjections \in SeqsUpTo(EntryTypes, MaxInjections) :
              CheckBuilderConfig(Partials, LocalInjections)
       \/ \E Partials \in SeqsUpTo(ListenerPartials, MaxExtends),
             LocalListeners \in SeqsUpTo(ListenerEntryTypes, MaxSubjectListeners) :
              CheckListeners(Partials, LocalListeners)
    /\ UNCHANGED <<cfgVars, tokVars, extVars, diagVars, runVars, mgrVars, defVars, useVars, evtVars, adpVars, awxVars, aliasVars, shareVars>>

SpecType == InitType /\ [][NextType]_vars

(***************************************************************************)
(* Specification of the MutableEventDispatcherProvider                     *)
(***************************************************************************)
\* new MutableEventDispatcherProvider({ containerProvider })
InitEvt ==
    /\ IdleEvt
    /\ IdleCfg /\ IdleTok /\ IdleExt /\ IdleDiag /\ IdleRun /\ IdleMgr /\ IdleDef /\ IdleUse /\ IdleType /\ IdleAdp /\ IdleAwx /\ IdleAlias /\ IdleShare

Observed(op, eventToken, listenerToken, result, invoked, removed) ==
    [op |-> op, event |-> eventToken, listener |-> listenerToken,
     result |-> result, invoked |-> invoked, removed |-> removed]

Register(eventToken, listenerToken) ==
    /\ Len(getOrEmpty(eventListeners, getEventName(eventToken))) < MaxHeld
    /\ eventListeners' = MutableRegister(eventListeners, eventToken, listenerToken)
    /\ registeredFor' = [registeredFor EXCEPT ![eventToken] = @ \cup {listenerToken}]
    /\ observed' = Observed("register", eventToken, listenerToken, FALSE, <<>>, {})

Dispatch(eventToken, failing) ==
    \E out \in {MutableDispatch(eventListeners, EventOf(eventToken), failing)} :
        /\ observed' = Observed("dispatch", eventToken, "", out.threw, out.invoked, {})
        /\ UNCHANGED <<eventListeners, registeredFor>>

HasListeners(eventToken) ==
    /\ observed' = Observed("hasListeners", eventToken, "",
                            MutableHasListeners(eventListeners, eventToken), <<>>, {})
    /\ UNCHANGED <<eventListeners, registeredFor>>

HasListener(eventToken, listenerToken) ==
    /\ observed' = Observed("hasListener", eventToken, listenerToken,
                            MutableHasListener(eventListeners, eventToken,
                                               listenerToken), <<>>, {})
    /\ UNCHANGED <<eventListeners, registeredFor>>

ClearListeners(eventToken) ==
    \E map \in {MutableClearListeners(eventListeners, eventToken)} :
        /\ eventListeners' = map
        /\ registeredFor' = [registeredFor EXCEPT ![eventToken] = {}]
        /\ observed' = Observed("clearListeners", eventToken, "", FALSE, <<>>,
                                Reported(eventListeners) \ Reported(map))

ClearAllListeners ==
    /\ eventListeners' = MutableClearAllListeners(eventListeners)
    /\ registeredFor' = NeverRegistered
    /\ observed' = Observed("clearAllListeners", CHOOSE c \in EventClasses : TRUE, "",
                            FALSE, <<>>, Reported(eventListeners))

NextEvt ==
    /\ \/ \E eventToken \in EventClasses, listenerToken \in ListenerTokens :
              Register(eventToken, listenerToken)
       \/ \E eventToken \in EventClasses, failing \in SUBSET ListenerTokens :
              Dispatch(eventToken, failing)
       \/ \E eventToken \in EventClasses : HasListeners(eventToken)
       \/ \E eventToken \in EventClasses, listenerToken \in ListenerTokens :
              HasListener(eventToken, listenerToken)
       \/ \E eventToken \in EventClasses : ClearListeners(eventToken)
       \/ ClearAllListeners
    /\ UNCHANGED <<cfgVars, tokVars, extVars, diagVars, runVars, mgrVars, defVars, useVars, typeVars, adpVars, awxVars, aliasVars, shareVars>>

SpecEvt == InitEvt /\ [][NextEvt]_vars

(***************************************************************************)
(* Specification of useBuilder on one config                               *)
(***************************************************************************)
\* the configs passed to useBuilder
SubjectConfigs ==
    [builderId : BuilderIds,
     injections : SeqsUpTo(RuntimeEntries, MaxInjections),
     listeners : SeqsUpTo(ConfigListeners, MaxSubjectListeners)]

\* a program with one config: the container may already bind some tokens, an
\* event dispatcher provider may be configured and may already hold a
\* listener registered through its register method
InitUse ==
    /\ subject \in SubjectConfigs
    /\ \E bound \in SUBSET InjectionTokens :
           bindings = [t \in RuntimeTokens |->
                          IF t \in bound THEN [kind |-> "constant", to |-> "external"]
                          ELSE Unbound]
    /\ dispatcher \in
           {[configured |-> FALSE, listeners |-> NoListeners]}
           \cup [configured : {TRUE},
                 listeners : {NoListeners, [e \in {"UserCreated"} |-> <<"SendMail">>]}]
    /\ used = NoUse
    /\ registrations = NoRegistrations
    /\ IdleCfg /\ IdleTok /\ IdleExt /\ IdleDiag /\ IdleMgr /\ IdleDef /\ IdleEvt /\ IdleType /\ IdleAdp /\ IdleAwx /\ IdleAlias /\ IdleShare

\* useBuilder(subject); the log keeps what the container and the dispatcher
\* held before the call and the calls made
UseSubject ==
    \E out \in {useBuilder(bindings, dispatcher, subject)} :
        /\ bindings' = out.bindings
        /\ dispatcher' = out.dispatcher
        /\ used' = [called |-> TRUE,
                     before |-> bindings,
                     heldBefore |-> dispatcher.listeners,
                     marked |-> isRegistered(bindings, builderIdToken(subject.builderId)),
                     calls |-> out.calls, listenerCalls |-> out.listenerCalls,
                     threw |-> out.threw]
        /\ UNCHANGED <<registrations, subject>>

NextUse ==
    /\ UseSubject
    /\ UNCHANGED <<cfgVars, tokVars, extVars, diagVars, mgrVars, defVars, evtVars, typeVars, adpVars, awxVars, aliasVars, shareVars>>

SpecUse == InitUse /\ [][NextUse]_vars

(***************************************************************************)
(* Specification of two builders on one container provider                 *)
(***************************************************************************)
\* the builder configs of a program, one per builderId
SharedConfigs(b) ==
    [builderId : {b},
     injections : SeqsUpTo(RuntimeEntries, MaxShared),
     listeners : SeqsUpTo(ListenerEntries, MaxListeners)]

\* a container provider with nothing registered is configured; an event
\* dispatcher provider may be configured already
InitShare ==
    /\ builders \in {[b \in BuilderIds |-> IF b = "app" THEN c1 ELSE c2] :
                        c1 \in SharedConfigs("app"), c2 \in SharedConfigs("admin")}
    /\ firstUse = [b \in BuilderIds |-> "none"]
    /\ bindings = [t \in RuntimeTokens |-> Unbound]
    /\ dispatcher \in [configured : BOOLEAN, listeners : {NoListeners}]
    /\ used = NoUse
    /\ registrations = NoRegistrations
    /\ IdleCfg /\ IdleTok /\ IdleExt /\ IdleDiag /\ IdleMgr /\ IdleDef /\ IdleUse /\ IdleEvt /\ IdleType /\ IdleAdp /\ IdleAwx /\ IdleAlias

\* how a useBuilder call went: it threw in registerConfig, it passed
\* registerEvent with no dispatcher configured, or with one
Outcome(out, disp) ==
    IF out.threw THEN "threw"
    ELSE IF ~DispatcherConfigured(disp) THEN "skipped"
    ELSE "registered"

\* useBuilder(builders[b]); the log keeps how the first call for b went
UseShared(b) ==
    \E out \in {useBuilder(bindings, dispatcher, builders[b])} :
        /\ bindings' = out.bindings
        /\ dispatcher' = out.dispatcher
        /\ used' = [called |-> TRUE, builderId |-> b,
                     marked |-> isRegistered(bindings, builderIdToken(b)),
                     first |-> firstUse[b],
                     calls |-> out.calls, listenerCalls |-> out.listenerCalls,
                     threw |-> out.threw]
        /\ firstUse' = IF firstUse[b] = "none"
                       THEN [firstUse EXCEPT ![b] = Outcome(out, dispatcher)]
                       ELSE firstUse
        /\ UNCHANGED <<builders, registrations>>

\* useEventDispatcherProvider(provider) while none is configured
ConfigureEventDispatcher ==
    /\ ~dispatcher.configured
    /\ dispatcher' = [dispatcher EXCEPT !.configured = TRUE]
    /\ UNCHANGED <<bindings, used, registrations, builders, firstUse>>

NextShare ==
    /\ \/ \E b \in BuilderIds : UseShared(b)
       \/ ConfigureEventDispatcher
    /\ UNCHANGED <<cfgVars, tokVars, extVars, diagVars, mgrVars, defVars, useVars, evtVars, typeVars, adpVars, awxVars, aliasVars>>

SpecShare == InitShare /\ [][NextShare]_vars

(***************************************************************************)
(* Specification of the runtime                                            *)
(***************************************************************************)
\* a container provider is configured, over a fresh container or one of the
\* application that already binds some of the tokens; an event dispatcher
\* provider may be configured
InitRun ==
    /\ \E bound \in SUBSET InjectionTokens :
           bindings = [t \in RuntimeTokens |->
                          IF t \in bound THEN [kind |-> "constant", to |-> "external"]
                          ELSE Unbound]
    /\ dispatcher \in [configured : BOOLEAN, listeners : {NoListeners}]
    /\ used = NoUse
    /\ registrations = NoRegistrations
    /\ IdleCfg /\ IdleTok /\ IdleExt /\ IdleDiag /\ IdleMgr /\ IdleDef /\ IdleUse /\ IdleEvt /\ IdleType /\ IdleAdp /\ IdleAwx /\ IdleAlias /\ IdleShare

\* the register calls a builderId has made for a token or listener, so far
Counted(b, out) ==
    [injections |->
         [registrations.injections EXCEPT ![b] =
              [t \in InjectionTokens |-> @[t] + RegisterCalls(out.calls, t)]],
     listeners |->
         [registrations.listeners EXCEPT ![b] =
              [l \in ListenerEntries |-> @[l] + ListenerCalls(out.listenerCalls, l)]]]

\* useBuilder(config). One call of a behaviour is looked at: its log keeps
\* the builderId, the tokens of the merged injections list in order, and the
\* calls made; the calls before it are not logged
UseBuilder(config, observe) ==
    \E out \in {useBuilder(bindings, dispatcher, config)} :
      \E counted \in {Counted(config.builderId, out)} :
        /\ \A t \in InjectionTokens :
               counted.injections[config.builderId][t] <= MaxRegistrations
        /\ \A l \in ListenerEntries :
               counted.listeners[config.builderId][l] <= MaxRegistrations
        /\ bindings' = out.bindings
        /\ dispatcher' = out.dispatcher
        /\ used' = IF ~observe THEN used
                   ELSE [called |-> TRUE, builderId |-> config.builderId,
                         tokens |-> [i \in 1..Len(config.injections) |->
                                        config.injections[i].token],
                         marked |-> isRegistered(bindings,
                                                 builderIdToken(config.builderId)),
                         calls |-> out.calls, listenerCalls |-> out.listenerCalls,
                         threw |-> out.threw]
        /\ registrations' = counted

NextRun ==
    /\ used = NoUse
    /\ \E config \in BuilderConfigs : \E observe \in BOOLEAN :
           UseBuilder(config, observe)
    /\ UNCHANGED <<cfgVars, tokVars, extVars, diagVars, mgrVars, defVars, useVars, evtVars, typeVars, adpVars, awxVars, aliasVars, shareVars>>

SpecRun == InitRun /\ [][NextRun]_vars

(***************************************************************************)
(* Specification of the plugin's diagnostics                               *)
(***************************************************************************)
InitDiag ==
    /\ program \in [available : BOOLEAN,
                     sourceFiles : {FileNames, FileNames \ {"src/b.ts"}}]
    /\ engine \in [throws : BOOLEAN, errors : SeqsUpTo(DIErrors, MaxErrors)]
    /\ diagnostics = NoDiagnostics
    /\ IdleCfg /\ IdleTok /\ IdleExt /\ IdleRun /\ IdleMgr /\ IdleDef /\ IdleUse /\ IdleEvt /\ IdleType /\ IdleAdp /\ IdleAwx /\ IdleAlias /\ IdleShare

\* the editor asks for the diagnostics of a file
GetSemanticDiagnostics(fileName) ==
    \E original \in SeqsUpTo(HostDiagnostics(fileName), MaxHostDiagnostics) :
        /\ diagnostics' = [called |-> TRUE, fileName |-> fileName,
                            original |-> original,
                            result |-> getSemanticDiagnostics(program, engine,
                                                              fileName, original)]
        /\ UNCHANGED <<program, engine>>

NextDiag ==
    /\ \E fileName \in FileNames : GetSemanticDiagnostics(fileName)
    /\ UNCHANGED <<cfgVars, tokVars, extVars, runVars, mgrVars, defVars, useVars, evtVars, typeVars, adpVars, awxVars, aliasVars, shareVars>>

SpecDiag == InitDiag /\ [][NextDiag]_vars

(***************************************************************************)
(* Specification of the extractors                                         *)
(***************************************************************************)
\* sources where Decl(1) is a symbol constant and Decl(2) a class
ExtractTables ==
    {st \in SymbolTables :
        /\ st.shape[Decl(1)] = [node |-> "VariableDeclaration", symbolCall |-> TRUE,
                                typeString |-> "unique symbol"]
        /\ st.shape[Decl(2)] = [node |-> "ClassDeclaration", symbolCall |-> FALSE,
                                typeString |-> "typeof DB"]
        /\ st.site[Decl(2)] = <<"other.ts", 10>>}

InitExt ==
    /\ symtab \in ExtractTables
    /\ normalized = <<>>
    /\ extracted = NoCall
    /\ IdleCfg /\ IdleDiag /\ IdleRun /\ IdleMgr /\ IdleDef /\ IdleUse /\ IdleEvt /\ IdleType /\ IdleAdp /\ IdleAwx /\ IdleAlias /\ IdleShare

\* one extraction is looked at per behaviour
AnalyzeParameter(param) ==
    /\ extracted = NoCall
    /\ extracted' = [call |-> "analyzeParameter", input |-> param,
                      result |-> analyzeParameter(param)]
    /\ UNCHANGED <<symtab, normalized>>

ParseInjectionEntry(element) ==
    /\ extracted = NoCall
    /\ extracted' = [call |-> "parseInjectionEntry", input |-> element,
                      result |-> parseInjectionEntry(element)]
    /\ UNCHANGED <<symtab, normalized>>

ParseInjections(elements) ==
    /\ extracted' = [call |-> "parseInjections", input |-> elements,
                      result |-> parseInjectionsFrom(elements, 1, NoProviders)]
    /\ UNCHANGED <<symtab, normalized>>

NextExt ==
    /\ \/ \E param \in Parameters : AnalyzeParameter(param)
       \/ \E element \in InjectionEntries : ParseInjectionEntry(element)
       \/ /\ extracted = NoCall
          /\ \E elements \in InjectionArrays : ParseInjections(elements)
    /\ UNCHANGED <<cfgVars, diagVars, runVars, mgrVars, defVars, useVars, evtVars, typeVars, adpVars, awxVars, aliasVars, shareVars>>

SpecExt == InitExt /\ [][NextExt]_vars

(***************************************************************************)
(* Specification of the token normalizer                                   *)
(***************************************************************************)
\* sources whose second declaration is a class or a symbol constant
NormalizerTables ==
    {st \in SymbolTables :
        st.shape[Decl(2)].typeString \in {"typeof DB", "unique symbol"}}

InitTok ==
    /\ symtab \in NormalizerTables
    /\ normalized = <<>>
    /\ IdleCfg /\ IdleExt /\ IdleDiag /\ IdleRun /\ IdleMgr /\ IdleDef /\ IdleUse /\ IdleEvt /\ IdleType /\ IdleAdp /\ IdleAwx /\ IdleAlias /\ IdleShare

\* normalize(node, sourceFile); the last two calls are kept
Normalize(node) ==
    /\ normalized' = (IF Len(normalized) < 2 THEN normalized ELSE Tail(normalized))
                         \o <<[node |-> node, token |-> normalize(node)]>>
    /\ UNCHANGED symtab

NextTok ==
    /\ \E node \in TokenNodes : Normalize(node)
    /\ UNCHANGED <<cfgVars, extVars, diagVars, runVars, mgrVars, defVars, useVars, evtVars, typeVars, adpVars, awxVars, aliasVars, shareVars>>

SpecTok == InitTok /\ [][NextTok]_vars

(***************************************************************************)
(* Specification of the configuration graph                                *)
(***************************************************************************)
\* the configurations the extractor found in the analysed sources
ExtractAll(decls) == [s \in DOMAIN decls |-> analyzeCallExpression(s, decls[s])]

InitCfg ==
    /\ \E decls \in DeclarationSets(TokenIds, {"variable"}) :
           configs = ExtractAll(decls)
    /\ visitedConfigs = {}
    /\ resolved = NoResult
    /\ IdleTok /\ IdleExt /\ IdleDiag /\ IdleRun /\ IdleMgr /\ IdleDef /\ IdleUse /\ IdleEvt /\ IdleType /\ IdleAdp /\ IdleAwx /\ IdleAlias /\ IdleShare

\* a validation pass starts: the visited set is reset
StartPass ==
    /\ visitedConfigs' = {}
    /\ resolved' = NoResult
    /\ UNCHANGED configs

\* resolveAllProvidedTokens(config, allConfigs, visitedConfigs) on the pass's set
ResolveConfig(c) ==
    LET r == resolveAllProvidedTokens(configs[c], BuildConfigMap(configs),
                                      visitedConfigs, 0)
    IN /\ resolved' = [called |-> TRUE, config |-> c, before |-> visitedConfigs,
                       tokens |-> r.tokens, overflow |-> r.overflow]
       /\ visitedConfigs' = r.visited
       /\ UNCHANGED configs

NextCfg ==
    /\ \/ StartPass
       \/ \E c \in ConfigSymbols : ResolveConfig(c)
    /\ UNCHANGED <<tokVars, extVars, diagVars, runVars, mgrVars, defVars, useVars, evtVars, typeVars, adpVars, awxVars, aliasVars, shareVars>>

SpecCfg == InitCfg /\ [][NextCfg]_vars

\* the same analysis over sources that also declare configurations as
\* default exports (export default definePartialConfig(...))
InitExport ==
    /\ \E decls \in DeclarationSets({"T"}, {"variable", "default"}) :
           configs = ExtractAll(decls)
    /\ visitedConfigs = {}
    /\ resolved = NoResult
    /\ IdleTok /\ IdleExt /\ IdleDiag /\ IdleRun /\ IdleMgr /\ IdleDef /\ IdleUse /\ IdleEvt /\ IdleType /\ IdleAdp /\ IdleAwx /\ IdleAlias /\ IdleShare

SpecExport == InitExport /\ [][NextCfg]_vars

(***************************************************************************)
(* Claims on the effective provider set                                    *)
(***************************************************************************)
AllConfigs == BuildConfigMap(configs)

\* resolveAllProvidedTokens(configs[c], allConfigs, {})
Effective(c) == resolveAllProvidedTokens(configs[c], AllConfigs, {}, 0).tokens

\* the last call was resolveAllProvidedTokens(C, allConfigs, {})
ResolvedFresh == resolved.called /\ resolved.before = {} /\ ~resolved.overflow

\* the configurations of allConfigs reached from p along extends entries
RECURSIVE ReachFrom(_, _)
ReachFrom(front, seen) ==
    LET nxt == {p \in DOMAIN AllConfigs :
                   \E c \in front : \E i \in 1..Len(configs[c].parentConfigs) :
                       configs[c].parentConfigs[i] = p} \ seen
    IN IF nxt = {} THEN seen ELSE ReachFrom(nxt, seen \cup nxt)

Reach(p) == ReachFrom({p}, {p})

Acyclic == \A c \in DOMAIN AllConfigs : c \notin ReachFrom({c}, {})

\* parent p, or a configuration it inherits from, provides token T
Supplies(p, T) ==
    p \in DOMAIN AllConfigs /\ \E c \in Reach(p) : T \in DOMAIN configs[c].providedTokens

\* own providers of C, then the effective set of each parent in extends order
RECURSIVE FoldParents(_, _, _)
FoldParents(ps, i, acc) ==
    IF i > Len(ps) THEN acc
    ELSE FoldParents(ps, i + 1,
             IF ps[i] \in DOMAIN AllConfigs
             THEN [t \in DOMAIN acc \cup DOMAIN Effective(ps[i]) |->
                      IF t \in DOMAIN acc THEN acc[t] ELSE Effective(ps[i])[t]]
             ELSE acc)

\* C1 (the case of the claim): C extends [P1, P2], P1 and P2 both provide T
\* with different providers, C does not provide T
TwoParentsCase(c, T) ==
    LET ps == configs[c].parentConfigs
    IN /\ Len(ps) = 2 /\ ps[1] # ps[2]
       /\ ps[1] \in DOMAIN AllConfigs /\ ps[2] \in DOMAIN AllConfigs
       /\ T \in DOMAIN configs[ps[1]].providedTokens
       /\ T \in DOMAIN configs[ps[2]].providedTokens
       /\ T \notin DOMAIN configs[c].providedTokens

\* C1: inheritance precedence. With extends [P1, P2], both providing T and C
\* not providing it, resolveAllProvidedTokens(C, allConfigs, {}) maps T to
\* P1's provider. In general a token that C does not provide is mapped to a
\* provider coming from the earliest-listed parent that supplies it (directly
\* or by inheritance), and on an acyclic extends graph the result is C's own
\* providers followed by each parent's effective set in extends order, the
\* earlier one winning.
C1_InheritancePrecedence ==
    ResolvedFresh =>
      LET c == resolved.config
          ps == configs[c].parentConfigs
      IN /\ \A T \in TokenIds :
               TwoParentsCase(c, T) => resolved.tokens[T] = configs[ps[1]].providedTokens[T]
         /\ \A i \in 1..Len(ps) : \A T \in TokenIds \ DOMAIN configs[c].providedTokens :
               (Supplies(ps[i], T) /\ \A k \in 1..(i - 1) : ~Supplies(ps[k], T))
                  => /\ T \in DOMAIN resolved.tokens
                     /\ resolved.tokens[T][1] \in Reach(ps[i])
         /\ Acyclic => resolved.tokens = FoldParents(ps, 1, configs[c].providedTokens)

C1_Witness ==
    /\ ResolvedFresh
    /\ TwoParentsCase(resolved.config, "T")
    /\ resolved.tokens["T"] = <<configs[resolved.config].parentConfigs[1], "T">>

\* C2: local override. A configuration that provides T itself and extends,
\* directly or transitively, a configuration that provides T keeps its own
\* provider for T in resolveAllProvidedTokens(C, allConfigs, {}).
C2_LocalOverride ==
    ResolvedFresh =>
      \A T \in DOMAIN configs[resolved.config].providedTokens :
         /\ T \in DOMAIN resolved.tokens
         /\ resolved.tokens[T] = configs[resolved.config].providedTokens[T]

C2_Witness ==
    /\ ResolvedFresh
    /\ "T" \in DOMAIN configs[resolved.config].providedTokens
    /\ \E p \in Reach(resolved.config) \ {resolved.config} :
          "T" \in DOMAIN configs[p].providedTokens
    /\ resolved.tokens["T"] = <<resolved.config, "T">>

\* C3: cycle safety. On every extends graph, cyclic ones included, the
\* resolution ends without exhausting the call stack, and a call on a
\* configuration whose symbol is already in the visited set returns exactly
\* that configuration's own providers and leaves the visited set as it was.
C3_CycleSafety ==
    resolved.called =>
      /\ ~resolved.overflow
      /\ (configs[resolved.config].symbol \in resolved.before =>
             /\ resolved.tokens = configs[resolved.config].providedTokens
             /\ visitedConfigs = resolved.before)

C3_Witness ==
    /\ ResolvedFresh
    /\ ~Acyclic
    /\ resolved.config \in ReachFrom({resolved.config}, {})
    /\ \E p \in Reach(resolved.config) \ {resolved.config} :
          resolved.config \in Reach(p)

\* C4: effective-set completeness. For every extends entry of C that refers
\* to a configuration declaration of the analysed sources (declared as a
\* variable or as a default export), every token of that parent's effective
\* provider set is a key of resolveAllProvidedTokens(C, allConfigs, {}).
C4_EffectiveSetComplete ==
    ResolvedFresh =>
      LET ps == configs[resolved.config].parentConfigs
      IN \A i \in 1..Len(ps) :
            ps[i] \in DOMAIN configs =>
               DOMAIN Effective(ps[i]) \subseteq DOMAIN resolved.tokens


(***************************************************************************)
(* Claims on token identity                                                *)
(***************************************************************************)
\* the declared symbol an alias chain ends at, if it ends at one
RECURSIVE ChainEnd(_, _)
ChainEnd(symbol, steps) ==
    IF symbol \in DeclSymbols THEN symbol
    ELSE IF symbol \in AliasSymbols /\ steps > 0
    THEN ChainEnd(symtab.target[symbol], steps - 1)
    ELSE NoSym

\* the declaration a token reference resolves to
ResolvesTo(node) ==
    IF node.syntax \in {"Identifier", "PropertyAccessExpression"}
    THEN ChainEnd(node.symbol, MaxAliases)
    ELSE NoSym

\* a declared symbolic token: a variable or property holding a symbol
Symbolic(symbol) ==
    /\ symtab.shape[symbol].node # "ClassDeclaration"
    /\ \/ symtab.shape[symbol].symbolCall
       \/ symtab.shape[symbol].typeString \in {"symbol", "unique symbol"}

\* C5: identity stability. References (identifiers, import aliases of any
\* chain length, member accesses) that resolve to the same declaration
\* normalize to equal ids; references that resolve to two separately declared
\* symbolic tokens normalize to different ids, whatever their text.
C5_IdentityStability ==
    \A i \in DOMAIN normalized : \A j \in DOMAIN normalized :
       LET a == normalized[i]
           b == normalized[j]
           da == ResolvesTo(a.node)
           db == ResolvesTo(b.node)
       IN /\ (da # NoSym /\ da = db) =>
                /\ a.token # NullToken /\ b.token # NullToken
                /\ a.token.id = b.token.id
          /\ (da # NoSym /\ db # NoSym /\ da # db /\ Symbolic(da) /\ Symbolic(db)) =>
                /\ a.token # NullToken /\ b.token # NullToken
                /\ a.token.id # b.token.id

C5_Witness ==
    /\ Len(normalized) = 2
    /\ normalized[1].node = Identifier(Alias(1))
    /\ symtab.target[Alias(1)] = Alias(2)
    /\ symtab.target[Alias(2)] = Decl(1)
    /\ normalized[2].node = PropertyAccess(Decl(1))
    /\ Symbolic(Decl(1)) /\ Symbolic(Decl(2))
    /\ normalized[1].token.id = normalized[2].token.id
    /\ normalized[1].token.id = <<"SYMBOL", "tokens.ts", 10>>

(***************************************************************************)
(* Claims on the extractors                                                *)
(***************************************************************************)
\* a decorator the dependency extractor recognizes as @inject(...)
Recognized(decorator) ==
    /\ decorator.call
    /\ decorator.callee = "inject"
    /\ (decorator.origin.symbol =>
            (decorator.origin.tsyringe \/ ~decorator.origin.nodeModules))

HasRecognizedInject(param) ==
    \E i \in 1..Len(param.decorators) : Recognized(param.decorators[i])

FirstRecognized(param) ==
    param.decorators[CHOOSE i \in 1..Len(param.decorators) :
                        /\ Recognized(param.decorators[i])
                        /\ \A j \in 1..(i - 1) : ~Recognized(param.decorators[j])]

AnnotationToken(param) ==
    IF FirstRecognized(param).argument = NoNode THEN NullToken
    ELSE normalize(FirstRecognized(param).argument)

\* C6: a parameter with a recognized @inject(...) annotation yields either the
\* dependency on the token normalized from the annotation's argument, with
\* method decorator, or, when that argument gives no token, no dependency at
\* all; the declared type is the token only without a recognized annotation.
C6_AnnotationExclusive ==
    extracted.call = "analyzeParameter" =>
        /\ HasRecognizedInject(extracted.input) =>
              IF AnnotationToken(extracted.input) = NullToken
              THEN extracted.result = NullDependency
              ELSE extracted.result = [token |-> AnnotationToken(extracted.input),
                                       injectionMethod |-> "decorator"]
        /\ extracted.result.injectionMethod = "type" =>
              ~HasRecognizedInject(extracted.input)

\* C7: a provider recorded with registrationType 'class' has a token of type
\* 'class', and an entry with a token of another type and none of factory,
\* value, provider is not recorded.
C7_ClassKindOnlyForClassTokens ==
    extracted.call = "parseInjectionEntry" =>
        /\ extracted.result.registrationType = "class" =>
              extracted.result.token.type = "class"
        /\ ( /\ ~extracted.input.factory
             /\ ~extracted.input.value
             /\ ~extracted.input.provider
             /\ extracted.input.token # NoNode
             /\ normalize(extracted.input.token) # NullToken
             /\ normalize(extracted.input.token).type # "class" ) =>
              extracted.result = NullProvider

(***************************************************************************)
(* Claims on the plugin's diagnostics                                      *)
(***************************************************************************)
\* the cases in which no validation result is used
ValidationSkipped(fileName) ==
    \/ ~program.available
    \/ fileName \notin program.sourceFiles
    \/ isDeclarationFile(fileName)
    \/ includesNodeModules(fileName)
    \/ engine.throws

\* the diagnostic of a violation reported on this file by the pass
IsViolationOf(d, fileName) ==
    \E i \in 1..Len(engine.errors) :
        /\ engine.errors[i].file = fileName
        /\ d = convertToDiagnostics(<<engine.errors[i]>>)[1]

\* C8: the result of getSemanticDiagnostics starts with the host's original
\* diagnostics, unchanged and in order; whatever follows is a DI violation
\* whose file is the requested file; and for a declaration file, a file under
\* node_modules, a missing program or source file, or a validation that
\* throws, the result is exactly the original diagnostics.
C8_HostDiagnosticsMerging ==
    diagnostics.called =>
        /\ Len(diagnostics.result) >= Len(diagnostics.original)
        /\ SubSeq(diagnostics.result, 1, Len(diagnostics.original))
               = diagnostics.original
        /\ \A i \in (Len(diagnostics.original) + 1)..Len(diagnostics.result) :
               /\ diagnostics.result[i].file = diagnostics.fileName
               /\ diagnostics.result[i].source = "di-validator"
               /\ IsViolationOf(diagnostics.result[i], diagnostics.fileName)
        /\ ValidationSkipped(diagnostics.fileName) =>
               diagnostics.result = diagnostics.original

\* a file with two host diagnostics gets one violation appended while the
\* pass also reported a violation on another file
C8_Witness ==
    /\ diagnostics.called
    /\ Len(diagnostics.original) = 2
    /\ Len(diagnostics.result) = 3
    /\ \E i \in 1..Len(engine.errors) :
           engine.errors[i].file # diagnostics.fileName

(***************************************************************************)
(* Claims on the runtime                                                   *)
(***************************************************************************)
\* C9: a useBuilder call for a builderId whose marker is registered makes no
\* registerValue, registerFactory or registerClass call and registers no
\* listener; over any sequence of useBuilder calls, every token and every
\* listener of a builderId is registered at most once.
C9_OncePerBuilderId ==
    /\ (used.called /\ used.marked) =>
           /\ used.calls = <<>>
           /\ used.listenerCalls = <<>>
           /\ ~used.threw
    /\ \A b \in BuilderIds :
           /\ \A t \in InjectionTokens : registrations.injections[b][t] <= 1
           /\ \A l \in ListenerEntries : registrations.listeners[b][l] <= 1

\* a builderId already marked is used again with a config whose token is
\* still unbound and whose listener the dispatcher does not hold
C9_Witness ==
    /\ used.called /\ used.marked
    /\ \E i \in 1..Len(used.tokens) : ~isRegistered(bindings, used.tokens[i])
    /\ dispatcher.configured
    /\ dispatcher.listeners["UserCreated"] = <<>>
    /\ \E b \in BuilderIds : registrations.injections[b][ClassToken] = 1

\* C10: useBuilder makes no register call (and invokes no value function) for
\* a token the provider reports as registered when the entry is processed;
\* so of the entries of the list with the same token only the first can be
\* registered.
C10_FirstRegistrationWins ==
    used.called =>
        \A k \in 1..Len(used.calls) :
            /\ ~used.calls[k].unbind
            /\ used.calls[k].index > 0 =>
                   \A i \in 1..(used.calls[k].index - 1) :
                       used.tokens[i] # used.calls[k].token

\* a list with the same token twice: the first entry is registered, the
\* second is not, and the call completes
C10_Witness ==
    /\ used.called /\ ~used.threw
    /\ Len(used.tokens) = 2
    /\ used.tokens[1] = used.tokens[2]
    /\ \E k \in 1..Len(used.calls) :
           used.calls[k].index = 1 /\ used.calls[k].method = "registerFactory"
    /\ \A k \in 1..Len(used.calls) : used.calls[k].index # 2

(***************************************************************************)
(* Claims on the two managers                                              *)
(***************************************************************************)
\* C11: useContainerProvider succeeds only when no provider is configured and
\* otherwise throws and leaves the configured provider in place;
\* getContainerProvider returns the configured provider or throws when there
\* is none; hasContainerProvider is true exactly when getContainerProvider
\* would not throw.
C11_ProviderStateMachine ==
    /\ hasContainerProvider(currentProvider)
           <=> ~getContainerProvider(currentProvider).threw
    /\ managed.op = "useContainerProvider" =>
           IF managed.provider = NoProvider
           THEN ~managed.threw /\ currentProvider = managed.arg
           ELSE managed.threw /\ currentProvider = managed.provider
    /\ managed.op = "getContainerProvider" =>
           /\ currentProvider = managed.provider
           /\ IF managed.provider = NoProvider
              THEN managed.threw
              ELSE ~managed.threw /\ managed.value = managed.provider
    /\ managed.op = "hasContainerProvider" =>
           /\ currentProvider = managed.provider
           /\ managed.value = (managed.provider # NoProvider)

\* a second useContainerProvider with another provider has thrown
C11_Witness ==
    /\ managed.op = "useContainerProvider"
    /\ managed.threw
    /\ managed.provider # NoProvider
    /\ managed.arg # managed.provider
    /\ currentProvider = managed.provider

\* C12: resetContainerProvider never throws and leaves no provider
\* configured, so that hasContainerProvider is false and any following
\* useContainerProvider succeeds; dispose() of the provider that was
\* configured is called exactly once, and not at all when there was none.
C12_ResetLeavesUnconfigured ==
    managed.op = "resetContainerProvider" =>
        /\ ~managed.threw
        /\ ~hasContainerProvider(currentProvider)
        /\ \A p \in ContainerProviders :
               /\ ~useContainerProvider(currentProvider, p).threw
               /\ useContainerProvider(currentProvider, p).currentProvider = p
        /\ managed.disposeCalls =
               IF managed.provider = NoProvider THEN <<>> ELSE <<managed.provider>>

\* the provider that was reset throws from dispose()
C12_Witness ==
    /\ managed.op = "resetContainerProvider"
    /\ managed.provider # NoProvider
    /\ managed.provider.disposeThrows
    /\ Len(managed.disposeCalls) = 1

\* C13: resetEventDispatcherProvider clears the listeners of whatever provider
\* is registered and removes it, so that hasEventDispatcherProvider is false
\* and a following useEventDispatcherProvider succeeds;
\* useEventDispatcherProvider throws and leaves the provider in place when
\* one is registered.
C13_ResetRemovesEventProvider ==
    /\ (managed.op = "resetEventDispatcherProvider"
            /\ managed.eventProvider # NoEventProvider) =>
           /\ ~hasEventDispatcherProvider(globalEventDispatcherProvider)
           /\ ~listening[managed.eventProvider]
           /\ \A q \in EventProviders :
                  ~useEventDispatcherProvider(globalEventDispatcherProvider, q).threw
    /\ (managed.op = "useEventDispatcherProvider"
            /\ managed.eventProvider # NoEventProvider) =>
           /\ managed.threw
           /\ globalEventDispatcherProvider = managed.eventProvider

(***************************************************************************)
(* Claims on defineBuilderConfig                                           *)
(***************************************************************************)
\* the injections, and the listeners, of the partials from the i-th on
RECURSIVE PartialInjectionsFrom(_, _)
PartialInjectionsFrom(ps, i) ==
    IF i > Len(ps) THEN <<>>
    ELSE (IF ps[i].injections.defined THEN ps[i].injections.items ELSE <<>>)
             \o PartialInjectionsFrom(ps, i + 1)

RECURSIVE PartialListenersFrom(_, _)
PartialListenersFrom(ps, i) ==
    IF i > Len(ps) THEN <<>>
    ELSE (IF ps[i].listeners.defined THEN ps[i].listeners.items ELSE <<>>)
             \o PartialListenersFrom(ps, i + 1)

Extended(config) == IF config.extends.defined THEN config.extends.items ELSE <<>>

LocalListeners(config) ==
    IF config.listeners.defined THEN config.listeners.items ELSE <<>>

\* C14: the injections of the returned config are the local injections in
\* order followed by the injections of each extended partial in extends
\* order, nothing dropped or deduplicated; its listeners are the listeners of
\* each extended partial in extends order followed by the local listeners.
C14_MergeOrder ==
    defined.called =>
        LET local == defined.config.injections
            inherited == PartialInjectionsFrom(Extended(defined.config), 1)
            heard == PartialListenersFrom(Extended(defined.config), 1)
            own == LocalListeners(defined.config)
        IN /\ Len(defined.result.injections) = Len(local) + Len(inherited)
           /\ \A i \in 1..Len(local) : defined.result.injections[i] = local[i]
           /\ \A i \in 1..Len(inherited) :
                  defined.result.injections[Len(local) + i] = inherited[i]
           /\ Len(defined.result.listeners) = Len(heard) + Len(own)
           /\ \A i \in 1..Len(heard) : defined.result.listeners[i] = heard[i]
           /\ \A i \in 1..Len(own) :
                  defined.result.listeners[Len(heard) + i] = own[i]

\* a config with local entries extends two partials that bring the same
\* token as a local entry and listeners other than the local one
C14_Witness ==
    /\ defined.called
    /\ Len(Extended(defined.config)) = 2
    /\ Len(defined.config.injections) = 2
    /\ Len(defined.result.injections) = 4
    /\ defined.result.injections[1] = defined.result.injections[3]
    /\ defined.result.injections[1] # defined.result.injections[2]
    /\ Len(defined.result.listeners) = 3
    /\ defined.result.listeners[1] # defined.result.listeners[3]
    /\ defined.result.listeners[1] # defined.result.listeners[2]

(***************************************************************************)
(* Claims on useBuilder for one config                                     *)
(***************************************************************************)
\* the injections of a config hold an entry with a token that is no class,
\* that the container did not hold and no entry before it registers, and
\* that has none of value, factory and provider
Unprovided(config, bnd) ==
    \E i \in 1..Len(config.injections) :
        /\ ~isConstructor(config.injections[i].token)
        /\ config.injections[i].has = {}
        /\ ~isRegistered(bnd, config.injections[i].token)
        /\ \A j \in 1..(i - 1) :
               config.injections[j].token = config.injections[i].token
                   => config.injections[j].has = {}

\* how many times a list holds a listener
TimesHeld(held, listener) ==
    Cardinality({k \in 1..Len(held) : held[k] = listener})

C17_ProviderRequired ==
    (used.called /\ ~used.marked /\ Unprovided(subject, used.before)) =>
        /\ used.threw
        /\ ~isRegistered(bindings, builderIdToken(subject.builderId))

\* the second entry of a config threw after the first had been registered
C17_Witness ==
    /\ used.called /\ ~used.marked /\ used.threw
    /\ Len(subject.injections) = 2
    /\ subject.injections[2].has = {}
    /\ ~isConstructor(subject.injections[2].token)
    /\ ~isRegistered(used.before, subject.injections[2].token)
    /\ Len(used.calls) = 1

(***************************************************************************)
(* Claims on the MutableEventDispatcherProvider                            *)
(***************************************************************************)
\* C18: events are identified by their class constructor: dispatch(e) calls
\* only listeners registered for the class that constructed e, hasListener
\* and hasListeners for a class report only listeners registered for that
\* class, and clearListeners for a class removes no listener of another
\* class, also when the two classes have the same name.
C18_EventsIdentifiedByConstructor ==
    /\ observed.op = "dispatch" =>
           \A k \in 1..Len(observed.invoked) :
               observed.invoked[k] \in registeredFor[observed.event]
    /\ (observed.op = "hasListener" /\ observed.result) =>
           observed.listener \in registeredFor[observed.event]
    /\ (observed.op = "hasListeners" /\ observed.result) =>
           registeredFor[observed.event] # {}
    /\ observed.op = "clearListeners" =>
           \A pair \in observed.removed : pair[1] = observed.event

(***************************************************************************)
(* Claims on the types of defineBuilderConfig                              *)
(***************************************************************************)
\* the type imposed on an entry is the error object type
Rejected(imposed) == "error" \in DOMAIN imposed

\* C19: the type imposed on the injections replaces by the error object type
\* every local entry whose token type is among the token types of the
\* extended partials and leaves every other local entry unchanged.
C19_TokenCollisionWithPartials ==
    typed.called =>
        \A K \in 1..Len(typed.injections) :
            IF typed.injections[K].token \in
                   IndexedByNumber(ExtractTokensFromTypedPartials(typed.extends))
            THEN typed.imposed[K] = TokenCollision(typed.injections[K].token)
            ELSE typed.imposed[K] = typed.injections[K]

\* C20: when two entries of the local injections have the same token (a
\* const symbol or a class, whose type names the token), the type imposed on
\* the later one is the error object type.
C20_DuplicateTokenRejected ==
    typed.called =>
        \A J \in 1..Len(typed.injections), K \in 1..Len(typed.injections) :
            (/\ J < K
             /\ typed.injections[J].token = typed.injections[K].token
             /\ typed.injections[K].token.kind # "symbol")
                => Rejected(typed.imposed[K])

\* the listener entries the extended partials declare
DeclaredInPartials(Partials) ==
    {l \in ListenerEntryTypes :
        \E i \in 1..Len(Partials) :
            /\ Partials[i].listeners.defined
            /\ \E k \in 1..Len(Partials[i].listeners.items) :
                   Partials[i].listeners.items[k] = l}

\* C21: a local listeners array with two entries of the same event class and
\* listener class has an entry replaced by an error object type, with or
\* without extended partials; a local entry equal to a listener entry of an
\* extended partial is replaced too; an entry that differs in event or in
\* listener from every other local entry and from every entry of the
\* partials is left as written.
C21_ExactDuplicateListeners ==
    typed.called =>
        /\ (\E J \in 1..Len(typed.listeners), K \in 1..Len(typed.listeners) :
                J < K /\ typed.listeners[J] = typed.listeners[K])
               => \E K \in 1..Len(typed.listeners) : Rejected(typed.imposedListeners[K])
        /\ \A K \in 1..Len(typed.listeners) :
               typed.listeners[K] \in DeclaredInPartials(typed.extends)
                   => Rejected(typed.imposedListeners[K])
        /\ \A K \in 1..Len(typed.listeners) :
               (/\ typed.listeners[K] \notin DeclaredInPartials(typed.extends)
                /\ \A J \in 1..Len(typed.listeners) :
                       J # K => typed.listeners[J] # typed.listeners[K])
                   => typed.imposedListeners[K] = typed.listeners[K]

(***************************************************************************)
(* Claims on the adapters                                                  *)
(***************************************************************************)
\* C22: an operation of an InversifyProvider or AwilixProvider throws
\* 'Container not initialized' exactly when no init() has completed, the
\* provider was not made by createSync, and its options carry no container.
C22_AdapterInitialization ==
    adapted.op \in AdapterOperations =>
        (adapted.threw <=>
            ~(adapted.initCompleted \/ adapted.sync \/ adapter.options.container))

\* C23: the registration names an AwilixProvider, or a scope created from
\* it, gives to two different tokens differ, and what isRegistered(token)
\* finds is never the registration made for another token.
C23_UniqueRegistrationNames ==
    /\ \A on \in {"root", "scope"}, t1 \in AwilixTokens, t2 \in AwilixTokens :
           (/\ t1 # t2
            /\ awilix[on].tokenToName[t1] # NoName
            /\ awilix[on].tokenToName[t2] # NoName)
               => awilix[on].tokenToName[t1] # awilix[on].tokenToName[t2]
    /\ \A on \in Providers, token \in AwilixTokens :
           hasRegistration(awilix[on].registrations, Inherited(on),
                           getTokenName(awilix[on], token).name)
               => getRegistration(awilix[on].registrations, Inherited(on),
                                  getTokenName(awilix[on], token).name) = token

\* C24: registerClass without a lifecycle binds in the provider's
\* defaultScope (Singleton when the option is absent); with lifecycle
\* Singleton, Transient or Scoped it binds in Singleton, Transient or
\* Request scope.
C24_InversifyDefaultScope ==
    (adapter.kind = "inversify" /\ adapted.op = "registerClass" /\ ~adapted.threw) =>
        adapter.bound[adapted.token] =
            CASE adapted.lifecycle = "absent" ->
                     (IF adapter.options.defaultScope = "absent" THEN "Singleton"
                      ELSE adapter.options.defaultScope)
              [] adapted.lifecycle = "Singleton" -> "Singleton"
              [] adapted.lifecycle = "Transient" -> "Transient"
              [] adapted.lifecycle = "Scoped" -> "Request"

\* C30: the completion of an init() call never replaces a container the
\* provider already has, so no registration is lost.
C30_InitIdempotent ==
    adapted.op = "init" => (~adapted.replaced /\ adapted.lost = {})

(***************************************************************************)
(* Claims on alias resolution                                              *)
(***************************************************************************)
\* C25: alias-chain resolution terminates on every alias graph, cyclic
\* chains included, in every component that follows import aliases: a loop
\* that was entered (by the token normalizer, by the configuration
\* extractor's resolveAlias, by the dependency extractor's
\* isInjectFromTsyringe) returns after finitely many steps.
C25_AliasResolutionTerminates ==
    (following.pc = "while") ~> (following.pc = "returned")

(***************************************************************************)
(* Claims on a validation pass                                             *)
(***************************************************************************)
\* C26: order independence within a pass. When several configurations are
\* resolved one after another with the same visited set (reset per pass, not
\* per configuration), each resolveAllProvidedTokens result equals the
\* result of resolving that configuration alone with an empty visited set;
\* a configuration already visited as a parent of an earlier-resolved one
\* still gets its inherited providers.
C26_OrderIndependence ==
    (resolved.called /\ ~resolved.overflow) =>
        resolved.tokens = Effective(resolved.config)

(***************************************************************************)
(* Claims on the analyzer against the runtime                              *)
(***************************************************************************)
\* the token an entry's token expression evaluates to when the program runs
NoRuntimeToken == [kind |-> "none", name |-> ""]

RuntimeTokenOf(node) ==
    IF ResolvesTo(node) = Decl(1) THEN SymbolToken
    ELSE IF ResolvesTo(node) = Decl(2) THEN ClassToken
    ELSE NoRuntimeToken

\* the injections array as registerConfig receives it
RuntimeInjections(elements) ==
    [i \in 1..Len(elements) |->
        Entry(RuntimeTokenOf(elements[i].token),
              {f \in {"provider", "value", "factory"} : elements[i][f]})]

\* registerConfig of the array on a container that has nothing registered
RegisteredAtRuntime(elements) ==
    registerConfig([t \in InjectionTokens |-> Unbound],
                   RuntimeInjections(elements), 1, <<>>)

\* C27: the analyzer agrees with the runtime on duplicates inside one list.
\* When an injections array has two entries with the same normalized token,
\* the provider the configuration extractor keeps for that token in
\* providedTokens is the first of them, the entry that registerConfig (which
\* skips tokens already registered) registers.
C27_AnalyzerAgreesOnDuplicates ==
    extracted.call = "parseInjections" =>
       LET elements == extracted.input
           kept == extracted.result.providedTokens
           calls == RegisteredAtRuntime(elements).calls
       IN (\A i \in 1..Len(elements) :
               RuntimeTokenOf(elements[i].token) # NoRuntimeToken) =>
          \A i \in 1..Len(elements) : \A j \in 1..Len(elements) :
             LET first == parseInjectionEntry(elements[i])
                 second == parseInjectionEntry(elements[j])
             IN (i < j /\ first # NullProvider /\ second # NullProvider
                       /\ first.token.id = second.token.id) =>
                /\ kept[first.token.id].node = i
                /\ \A k \in 1..Len(calls) :
                      (calls[k].method # "value"
                         /\ calls[k].token = RuntimeTokenOf(elements[i].token))
                      => kept[first.token.id].node = calls[k].index

(***************************************************************************)
(* Claims on builders that share a container provider                      *)
(***************************************************************************)
\* the binding an injections entry makes when registerConfig registers it
Produces(entry) ==
    IF "value" \in entry.has THEN [kind |-> "constant", to |-> "value"]
    ELSE IF "factory" \in entry.has THEN [kind |-> "dynamic", to |-> "factory"]
    ELSE IF isConstructor(entry.token) THEN [kind |-> "class", to |-> entry.token.name]
    ELSE [kind |-> "class", to |-> "Provider"]

\* the entry a config declares for a token: the first one with that token
Declares(config, i) ==
    \A k \in 1..(i - 1) : config.injections[k].token # config.injections[i].token

\* C28: builder isolation on a shared container. For two builder configs
\* with different builderIds used on the same container provider, in any
\* order, what useBuilder(B2).resolve(T) yields for a token T declared in B2
\* is produced by the provider, value or factory that B2 declares for T, even
\* when B1 declares T differently and useBuilder(B1) ran first.
C28_BuilderIsolation ==
    (used.called /\ ~used.threw) =>
        LET config == builders[used.builderId]
        IN \A i \in 1..Len(config.injections) :
              Declares(config, i) =>
                 bindings[config.injections[i].token] = Produces(config.injections[i])

====
